---- MODULE Spec2Model ----
(***************************************************************************)
(* DM-CLIR: the multi-model retrieval and ranking engine and the relevance *)
(* judgment loader.                                                        *)
(*                                                                         *)
(* Scores are Python floats in the source.  They are modelled as IEEE-754 *)
(* doubles, [neg, hi, lo, e] for +-(hi * 2^26 + lo) * 2^e, with the        *)
(* rounding of every multiplication, division and addition the code        *)
(* performs; the arithmetic SemanticRetriever.search does on numpy scalars *)
(* rounds to float32 when the embeddings are float32.  The per-document    *)
(* scores computed by the third-party libraries (BM25Okapi.get_scores,     *)
(* cosine_similarity, fuzz.partial_ratio) are inputs of the search         *)
(* actions, drawn from small sets.                                         *)
(* The repository pins no interpreter.  pythonMinor is the minor version   *)
(* of the CPython 3 the run is on, from 3.9 to 3.13: the builtin sum() of  *)
(* floats is compensated from 3.12 on and adds from left to right before,  *)
(* and the character database is Unicode 13 (3.9, 3.10), Unicode 14 (3.11) *)
(* or Unicode 15 (3.12, 3.13); it is drawn once and never changes.         *)
(* Python sequences are 0-based, the model's are 1-based.                  *)
(***************************************************************************)
EXTENDS Integers, Sequences, FiniteSets, TLC

VARIABLES documents, embeddings, cacheFile, tiePerm,
          results, call, raised, ranked,
          allResults, weights, merged,
          labelRows, labels, labelKeys, allLabels, loaded,
          threshold, scorerInput, confidence, allConfidence,
          retrieved_docs, relevant_docs, cutoffs, metrics, pythonMinor,
          evalResults, modelEval,
          retriever, searchLog, session, response, profiler, frames, clock,
          lastExit

vars == <<documents, embeddings, cacheFile, tiePerm, results, call, raised, ranked,
          allResults, weights, merged, labelRows, labels, labelKeys, allLabels, loaded,
          threshold, scorerInput, confidence, allConfidence,
          retrieved_docs, relevant_docs, cutoffs, metrics, pythonMinor,
          evalResults, modelEval,
          retriever, searchLog, session, response, profiler, frames, clock, lastExit>>

retrievalVars == <<documents, embeddings, cacheFile, tiePerm, results, call, raised, ranked>>
mergeVars == <<allResults, weights, merged>>
labelVars == <<labelRows, labels, labelKeys, allLabels, loaded>>
scorerVars == <<threshold, scorerInput, confidence, allConfidence>>
metricVars == <<retrieved_docs, relevant_docs, cutoffs, metrics, pythonMinor>>
evalVars == <<evalResults, modelEval>>
toolVars == <<retriever, searchLog, session, response, profiler, frames, clock, lastExit>>

(***************************************************************************)
(* Bounds                                                                  *)
(***************************************************************************)
MaxDocs == 3
MaxTopK == 3
MaxSupply == 2
MaxMergeLen == 2
MaxRows == 3
MaxCacheDocs == 2
MaxScored == 2
MaxRetrieved == 3
MaxK == 4
MaxEvalRows == 2
MaxEvalRetrieved == 2

Abs(x) == IF x < 0 THEN -x ELSE x

(***************************************************************************)
(* Python floats: IEEE-754 binary64                                        *)
(*   A float is a record [neg, hi, lo, e] that stands for the number       *)
(*   (hi * 2^26 + lo) * 2^e, negated when neg is TRUE.  The 53-bit         *)
(*   significand hi * 2^26 + lo is kept in two limbs, 2^26 <= hi < 2^27    *)
(*   and 0 <= lo < 2^26; a zero has hi = lo = e = 0, and 0.0 and -0.0      *)
(*   differ in neg.  Every operation rounds its exact result to the        *)
(*   nearest float, ties to the even significand.  Infinities, NaN and     *)
(*   subnormal numbers are outside the values the model computes with.     *)
(***************************************************************************)
Limb == 2^26

F64Zero == [neg |-> FALSE, hi |-> 0, lo |-> 0, e |-> 0]

\* floor(log2(a / b)) for a, b > 0
RECURSIVE Log2Floor(_, _)
Log2Floor(a, b) ==
    IF a < b THEN Log2Floor(2 * a, b) - 1
    ELSE IF 2 * b <= a THEN Log2Floor(a, 2 * b) + 1
    ELSE 0

\* -x and fabs(x)
F64Neg(x) == [x EXCEPT !.neg = ~x.neg]
F64Abs(x) == [x EXCEPT !.neg = FALSE]

\* float(n) for an int -2^27 < n < 2^27
F64FromInt(n) ==
    IF n = 0 THEN F64Zero
    ELSE LET t == Log2Floor(Abs(n), 1)
         IN  [neg |-> n < 0, hi |-> Abs(n) * 2^(26 - t), lo |-> 0, e |-> t - 52]

F64One == F64FromInt(1)

\* fabs(x) < fabs(y)
F64MagLt(x, y) ==
    IF y.hi = 0 THEN FALSE
    ELSE IF x.hi = 0 THEN TRUE
    ELSE \/ x.e < y.e
         \/ x.e = y.e /\ x.hi < y.hi
         \/ x.e = y.e /\ x.hi = y.hi /\ x.lo < y.lo

\* x == y, x < y and x <= y: the two zeros are equal
F64Eq(x, y) == (x.hi = 0 /\ y.hi = 0) \/ x = y

F64Lt(x, y) ==
    IF x.hi = 0 /\ y.hi = 0 THEN FALSE
    ELSE IF x.neg # y.neg THEN x.neg
    ELSE IF x.neg THEN F64MagLt(y, x)
    ELSE F64MagLt(x, y)

F64Leq(x, y) == F64Eq(x, y) \/ F64Lt(x, y)

\* round to nearest, ties to even: g is the first bit dropped, s tells
\* whether any later dropped bit is set; rounding up moves the significand
\* by one unit in the last place
F64Round(neg, hi, lo, e, g, s) ==
    IF ~(g /\ (s \/ lo % 2 = 1)) THEN [neg |-> neg, hi |-> hi, lo |-> lo, e |-> e]
    ELSE IF lo + 1 < Limb THEN [neg |-> neg, hi |-> hi, lo |-> lo + 1, e |-> e]
    ELSE IF hi + 1 < 2 * Limb THEN [neg |-> neg, hi |-> hi + 1, lo |-> 0, e |-> e]
    ELSE [neg |-> neg, hi |-> Limb, lo |-> 0, e |-> e + 1]

\* the significand of y divided by 2^d, d >= 0, with the first dropped bit
\* g and the sticky bit s
F64ShiftRight(y, d) ==
    IF d = 0 THEN [hi |-> y.hi, lo |-> y.lo, g |-> FALSE, s |-> FALSE]
    ELSE IF d <= 26
    THEN LET p == 2^d
             dropped == y.lo % p
         IN  [hi |-> y.hi \div p,
              lo |-> (y.hi % p) * 2^(26 - d) + y.lo \div p,
              g |-> dropped \div 2^(d - 1) = 1,
              s |-> dropped % 2^(d - 1) # 0]
    ELSE IF d <= 54
    THEN LET p == 2^(d - 26)
             dropped == y.hi % p
         IN  [hi |-> 0,
              lo |-> y.hi \div p,
              g |-> dropped \div 2^(d - 27) = 1,
              s |-> dropped % 2^(d - 27) # 0 \/ y.lo # 0]
    ELSE [hi |-> 0, lo |-> 0, g |-> FALSE, s |-> TRUE]

\* fabs(a) + fabs(b) with the sign of a, for a float a and the shifted
\* significand sh of a float b that has been brought to the exponent of a
F64AddAligned(a, sh) ==
    LET lo == a.lo + sh.lo
        hi == a.hi + sh.hi + lo \div Limb
    IN  IF hi < 2 * Limb
        THEN F64Round(a.neg, hi, lo % Limb, a.e, sh.g, sh.s)
        ELSE F64Round(a.neg, hi \div 2, (hi % 2) * (Limb \div 2) + (lo % Limb) \div 2,
                      a.e + 1, lo % 2 = 1, sh.g \/ sh.s)

\* the float of sign neg for the exact number (h * 2^26 + l) * 2^e with
\* 0 <= h < 2^28, 0 <= l < 2^26, not both 0: one bit is dropped when
\* h >= 2^27, none otherwise
F64Normalize(neg, h, l, e) ==
    IF h >= 2 * Limb
    THEN F64Round(neg, h \div 2, (h % 2) * (Limb \div 2) + l \div 2, e + 1, l % 2 = 1, FALSE)
    ELSE IF h > 0
    THEN LET k == 26 - Log2Floor(h, 1)
         IN  [neg |-> neg, hi |-> h * 2^k + l \div 2^(26 - k),
              lo |-> (l % 2^(26 - k)) * 2^k, e |-> e - k]
    ELSE LET t == Log2Floor(l, 1)
         IN  [neg |-> neg, hi |-> l * 2^(26 - t), lo |-> 0, e |-> e - 52 + t]

\* fabs(a) - fabs(b) with the sign of a, for fabs(a) > fabs(b) and exponents
\* d = a.e - b.e apart, d <= 1: the difference is formed exactly
F64SubNear(a, b, d) ==
    LET alo == (a.lo * 2^d) % Limb
        ahi == a.hi * 2^d + (a.lo * 2^d) \div Limb
        borrow == IF alo < b.lo THEN 1 ELSE 0
    IN  F64Normalize(a.neg, ahi - b.hi - borrow, alo - b.lo + borrow * Limb, b.e)

\* the significand of a times 8 less the number y (a whole part and, when
\* sticky, a fraction dropped from it), as hi * 2^29 + lo: 55 or 56 bits,
\* rounded to 53 with the sign and the exponent of a
F64SubRound(a, yhi, ylo, sticky) ==
    LET low == a.lo * 8 - ylo - (IF sticky THEN 1 ELSE 0)
        borrow == IF low < 0 THEN 1 ELSE 0
        lo == low + borrow * 8 * Limb
        hi == a.hi - yhi - borrow
    IN  IF hi >= Limb
        THEN F64Round(a.neg, hi, lo \div 8, a.e, (lo \div 4) % 2 = 1, lo % 4 # 0 \/ sticky)
        ELSE F64Round(a.neg, 2 * hi + (lo \div 4) \div Limb, (lo \div 4) % Limb, a.e - 1,
                      (lo \div 2) % 2 = 1, lo % 2 # 0 \/ sticky)

\* fabs(a) - fabs(b) with the sign of a, for fabs(a) > fabs(b) and exponents
\* d = a.e - b.e apart, d >= 2: b is brought to one eighth of the unit of a
F64SubFar(a, b, d) ==
    IF d = 2
    THEN F64SubRound(a, b.hi \div 4, ((b.hi % 4) * Limb + b.lo) * 2, FALSE)
    ELSE LET sh == F64ShiftRight(b, d - 3)
         IN  F64SubRound(a, sh.hi \div 8, (sh.hi % 8) * Limb + sh.lo, sh.g \/ sh.s)

\* fabs(a) - fabs(b) with the sign of a, for fabs(a) > fabs(b)
F64SubMag(a, b) ==
    IF a.e - b.e <= 1 THEN F64SubNear(a, b, a.e - b.e) ELSE F64SubFar(a, b, a.e - b.e)

\* x + y
F64Add(x, y) ==
    IF x.hi = 0 THEN (IF y.hi = 0 THEN [F64Zero EXCEPT !.neg = x.neg /\ y.neg] ELSE y)
    ELSE IF y.hi = 0 THEN x
    ELSE IF x.neg = y.neg
    THEN (IF x.e >= y.e THEN F64AddAligned(x, F64ShiftRight(y, x.e - y.e))
          ELSE F64AddAligned(y, F64ShiftRight(x, y.e - x.e)))
    ELSE IF F64MagLt(x, y) THEN F64SubMag(y, x)
    ELSE IF F64MagLt(y, x) THEN F64SubMag(x, y)
    ELSE F64Zero

\* x - y
F64Sub(x, y) == F64Add(x, F64Neg(y))

\* the four digits of a significand in base 2^13, lowest first
F64Digits(x) == <<x.lo % 2^13, x.lo \div 2^13, x.hi % 2^13, x.hi \div 2^13>>

\* the seven columns of the product of two significands given by their digits
F64Columns(a, b) ==
    [k \in 1..7 |->
        (IF k <= 4 THEN a[1] * b[k] ELSE 0)
        + (IF k >= 2 /\ k <= 5 THEN a[2] * b[k - 1] ELSE 0)
        + (IF k >= 3 /\ k <= 6 THEN a[3] * b[k - 2] ELSE 0)
        + (IF k >= 4 THEN a[4] * b[k - 3] ELSE 0)]

\* the digits in base 2^13 of the number given by columns i.. and a carry,
\* the last digit taking what is left
RECURSIVE F64Carry(_, _, _)
F64Carry(cols, i, carry) ==
    IF i = Len(cols) THEN <<cols[i] + carry>>
    ELSE <<(cols[i] + carry) % 2^13>> \o F64Carry(cols, i + 1, (cols[i] + carry) \div 2^13)

\* the product r[7] * 2^78 + ... + r[1], 105 or 106 bits, times 2^e, rounded
F64MulRound(neg, r, e) ==
    IF r[7] >= 2 * Limb
    THEN F64Round(neg, r[7] \div 2, (r[7] % 2) * (Limb \div 2) + r[6] * 2^12 + r[5] \div 2,
                  e + 53, r[5] % 2 = 1, r[4] # 0 \/ r[3] # 0 \/ r[2] # 0 \/ r[1] # 0)
    ELSE F64Round(neg, r[7], r[6] * 2^13 + r[5], e + 52, r[4] \div 2^12 = 1,
                  r[4] % 2^12 # 0 \/ r[3] # 0 \/ r[2] # 0 \/ r[1] # 0)

\* x * y
F64Mul(x, y) ==
    IF x.hi = 0 \/ y.hi = 0 THEN [F64Zero EXCEPT !.neg = (x.neg # y.neg)]
    ELSE F64MulRound(x.neg # y.neg,
                     F64Carry(F64Columns(F64Digits(x), F64Digits(y)), 1, 0), x.e + y.e)

\* n binary digits, n <= 27, of the quotient rem / y of two significands,
\* rem < y, and the remainder left after them
RECURSIVE F64DivBits(_, _, _, _, _)
F64DivBits(rhi, rlo, yhi, ylo, n) ==
    IF n = 0 \/ (rhi = 0 /\ rlo = 0) THEN [q |-> 0, hi |-> rhi, lo |-> rlo]
    ELSE LET dlo == (2 * rlo) % Limb
             dhi == 2 * rhi + (2 * rlo) \div Limb
             bit == IF dhi > yhi \/ (dhi = yhi /\ dlo >= ylo) THEN 1 ELSE 0
             borrow == IF dlo < ylo THEN 1 ELSE 0
             rest == F64DivBits(dhi - bit * (yhi + borrow),
                                dlo - bit * (ylo - borrow * Limb), yhi, ylo, n - 1)
         IN  [q |-> bit * 2^(n - 1) + rest.q, hi |-> rest.hi, lo |-> rest.lo]

\* the quotient of two significands with sign neg and exponent e, rounded:
\* its leading digit first and the digits after it in top, the remainder top
\* leaves giving the last 26 digits and the digit to round by
F64DivLow(neg, first, top, yhi, ylo, e) ==
    LET low == F64DivBits(top.hi, top.lo, yhi, ylo, 27)
    IN  F64Round(neg, first * Limb + top.q, low.q \div 2, e,
                 low.q % 2 = 1, low.hi # 0 \/ low.lo # 0)

\* x / y for y # 0.0: a power of two divides exactly; otherwise the 53
\* binary digits of the quotient and one more to round by
F64Div(x, y) ==
    IF x.hi = 0 THEN [F64Zero EXCEPT !.neg = (x.neg # y.neg)]
    ELSE IF y.hi = Limb /\ y.lo = 0
    THEN [neg |-> x.neg # y.neg, hi |-> x.hi, lo |-> x.lo, e |-> x.e - y.e - 52]
    ELSE LET \* 1 when the significand of x is at least that of y
             first == IF x.hi > y.hi \/ (x.hi = y.hi /\ x.lo >= y.lo) THEN 1 ELSE 0
             borrow == IF x.lo < y.lo THEN 1 ELSE 0
         IN  F64DivLow(x.neg # y.neg, first,
                       F64DivBits(x.hi - first * (y.hi + borrow),
                                  x.lo - first * (y.lo - borrow * Limb),
                                  y.hi, y.lo, 27 - first),
                       y.hi, y.lo, x.e - y.e - 53 + first)

\* two 13-bit digits of the quotient r / b of two ints, r < b < 2^18
IntDivDigits(r, b) ==
    LET s1 == r * 2^13
        s2 == (s1 % b) * 2^13
    IN  [q |-> (s1 \div b) * 2^13 + s2 \div b, rem |-> s2 % b]

\* a / b for ints 0 <= a < 2^17 and 1 <= b < 2^17: the exact quotient,
\* rounded once
IntTrueDiv(a, b) ==
    IF a = 0 THEN F64Zero
    ELSE LET t == Log2Floor(a, b)
             a0 == IF t < 0 THEN a * 2^(-t) ELSE a
             b0 == IF t > 0 THEN b * 2^t ELSE b
             top == IntDivDigits(a0 - b0, b0)
             low == IntDivDigits(top.rem, b0)
         IN  F64Round(FALSE, Limb + top.q, low.q, t - 52,
                      2 * low.rem >= b0, (2 * low.rem) % b0 # 0)

\* max(a, b): b when it is greater, otherwise a
F64Max(a, b) == IF F64Lt(a, b) THEN b ELSE a

\* the float32 nearest to the float x, ties to the even significand of 24
\* bits, held as the float of equal value (numpy.float32 arithmetic: each
\* operation gives the float32 nearest to its exact result, which is the
\* float32 nearest to the float64 result)
F32Round(x) ==
    IF x.hi = 0 THEN x
    ELSE LET top == x.hi \div 8
             up == (x.hi \div 4) % 2 = 1 /\ (x.hi % 4 # 0 \/ x.lo # 0 \/ top % 2 = 1)
         IN  IF ~up THEN [neg |-> x.neg, hi |-> top * 8, lo |-> 0, e |-> x.e]
             ELSE IF top + 1 < 2^24 THEN [neg |-> x.neg, hi |-> (top + 1) * 8, lo |-> 0, e |-> x.e]
             ELSE [neg |-> x.neg, hi |-> Limb, lo |-> 0, e |-> x.e + 1]

\* the result x of an operation on numpy scalars of the array's dtype
NpFloat(x, float32) == IF float32 THEN F32Round(x) ELSE x

\* TRUE for every value; finding it true works the value v out.  A loop of
\* the code that keeps a running total hands Evaluated(total) on at every
\* step, so that the total of a long list is never a pile of pending sums.
Evaluated(v) == v = v

\* the CPython 3 interpreters the run may be on, by minor version
PythonMinors == 9..13

\* whether the builtin sum() of floats is compensated: from CPython 3.12 on
CompensatedSum(minor) == minor >= 12

\* the version of Unicode of the interpreter's character database
UnicodeVersion(minor) == IF minor <= 10 THEN 13 ELSE IF minor = 11 THEN 14 ELSE 15

\* one step of sum() over floats, total being [hi, lo]: the running sum hi
\* and, when the interpreter's sum() is compensated (CPython 3.12 and
\* later, Neumaier's algorithm), the running error lo of the additions
SumStep(total, x, compensated) ==
    LET t == F64Add(total.hi, x)
    IN  [hi |-> t,
         lo |-> IF ~compensated THEN total.lo
                ELSE IF F64MagLt(total.hi, x)
                THEN F64Add(total.lo, F64Add(F64Sub(x, t), total.hi))
                ELSE F64Add(total.lo, F64Add(F64Sub(total.hi, t), x))]

\* sum() over the floats values[i..], entered with the running total
RECURSIVE SumFrom(_, _, _, _)
SumFrom(values, i, total, compensated) ==
    IF i > Len(values)
    THEN (IF compensated /\ total.lo.hi # 0 THEN F64Add(total.hi, total.lo) ELSE total.hi)
    ELSE LET next == SumStep(total, values[i], compensated)
         IN  IF Evaluated(next) THEN SumFrom(values, i + 1, next, compensated) ELSE next.hi

\* sum(values) for a list of floats: the int 0 that sum() starts from (and
\* returns for an empty list) is 0.0 here; the first float is added to it
\* exactly
sum(values, compensated) ==
    SumFrom(values, 1, [hi |-> F64Zero, lo |-> F64Zero], compensated)

\* a dict key that is absent (r.get falls through to its default)
NoKey == [neg |-> FALSE, hi |-> -1, lo |-> 0, e |-> 0]

RECURSIVE SeqMax(_)
SeqMax(s) == IF Len(s) = 1 THEN s[1] ELSE F64Max(s[1], SeqMax(Tail(s)))

Reverse(s) == [i \in 1..Len(s) |-> s[Len(s) + 1 - i]]

Perms(n) == {p \in [1..n -> 1..n] : \A i, j \in 1..n : i # j => p[i] # p[j]}

Pos(p, x) == CHOOSE i \in DOMAIN p : p[i] = x

(***************************************************************************)
(* Retrieval: numpy selection shared by the four retrievers                *)
(***************************************************************************)
\* np.argsort(scores): ascending by score; the default kind (quicksort) is not
\* stable, so the order of equal scores is fixed by the build: tie gives the
\* order in which that build leaves equal elements.
Before(i, j, scores, tie) ==
    \/ F64Lt(scores[i], scores[j])
    \/ F64Eq(scores[i], scores[j]) /\ Pos(tie, i) < Pos(tie, j)

RECURSIVE SortIdx(_, _, _)
SortIdx(S, scores, tie) ==
    IF S = {} THEN << >>
    ELSE LET m == CHOOSE i \in S : \A j \in S \ {i} : Before(i, j, scores, tie)
         IN  <<m>> \o SortIdx(S \ {m}, scores, tie)

ArgSort(scores, tie) == SortIdx(DOMAIN scores, scores, tie)

\* a[-top_k:] for top_k >= 0: -0 is 0, so top_k = 0 takes the whole array
LastK(a, top_k) ==
    IF top_k = 0 \/ top_k >= Len(a) THEN a
    ELSE SubSeq(a, Len(a) - top_k + 1, Len(a))

\* a[:top_k] for top_k >= 0
FirstK(a, top_k) == SubSeq(a, 1, IF top_k < Len(a) THEN top_k ELSE Len(a))

\* np.argsort(scores)[-top_k:][::-1]
TopIndices(scores, top_k, tie) == Reverse(LastK(ArgSort(scores, tie), top_k))

(***************************************************************************)
(* The four retrievers                                                     *)
(***************************************************************************)
ModelNames == {"BM25", "TF-IDF", "Fuzzy", "Semantic"}

\* scores the libraries can return, per document: floats (float64) from
\* BM25Okapi and from the cosine similarity of TF-IDF vectors, ints 0..100
\* from fuzz.partial_ratio (held as the floats of equal value), and from the
\* cosine similarity of embeddings floats of the dtype of the embeddings,
\* float32 or float64
BM25Scores == {F64FromInt(-1), F64Zero, IntTrueDiv(3, 5), F64FromInt(3)}
TFIDFScores == {F64Zero, IntTrueDiv(3, 10), IntTrueDiv(7, 10)}
FuzzyScores == {F64Zero, F64FromInt(7), F64FromInt(100)}
CosineScores(float32) ==
    {NpFloat(c, float32) : c \in {F64FromInt(-1), IntTrueDiv(1, 3), F64One}}

Hundred == F64FromInt(100)
Two == F64FromInt(2)

Entry(doc, score, raw, cosine, rank, model) ==
    [doc |-> doc, score |-> score, raw_score |-> raw, cosine_score |-> cosine,
     rank |-> rank, model |-> model]

\* BM25Retriever.search: scores = self.bm25.get_scores(query_tokens)
BM25Search(docs, scores, top_k, tie) ==
    LET top_indices == TopIndices(scores, top_k, tie)
        max_score == IF Len(top_indices) > 0
                     THEN F64Max(scores[top_indices[1]], F64One) ELSE F64One
    IN  [k \in 1..Len(top_indices) |->
            Entry(docs[top_indices[k]], F64Div(scores[top_indices[k]], max_score),
                  scores[top_indices[k]], NoKey, k, "BM25")]

\* TFIDFRetriever.search: scores = cosine_similarity(query_vec, tfidf_matrix)[0]
TFIDFSearch(docs, scores, top_k, tie) ==
    LET top_indices == TopIndices(scores, top_k, tie)
    IN  [k \in 1..Len(top_indices) |->
            Entry(docs[top_indices[k]], scores[top_indices[k]], NoKey, NoKey, k, "TF-IDF")]

\* FuzzyRetriever.search: scores = fuzz.partial_ratio(query, text), 0..100
FuzzySearch(docs, scores, top_k, tie) ==
    LET top_indices == TopIndices(scores, top_k, tie)
    IN  [k \in 1..Len(top_indices) |->
            Entry(docs[top_indices[k]], F64Div(scores[top_indices[k]], Hundred),
                  scores[top_indices[k]], NoKey, k, "Fuzzy")]

\* SemanticRetriever.search: scores has one entry per row of self.embeddings;
\* self.documents[idx] raises IndexError when idx is past the document list
SemanticRaises(docs, scores, top_k, tie) ==
    \E k \in DOMAIN TopIndices(scores, top_k, tie) :
        TopIndices(scores, top_k, tie)[k] > Len(docs)

\* SemanticSearch with the (cosine + 1) / 2 shift left out
SemanticSearchRawCosine(docs, scores, float32, top_k, tie) ==
    LET top_indices == TopIndices(scores, top_k, tie)
    IN  [k \in 1..Len(top_indices) |->
            Entry(docs[top_indices[k]], scores[top_indices[k]],
                  NoKey, scores[top_indices[k]], k, "Semantic")]

\* normalized_score = (scores[idx] + 1) / 2 is computed in the dtype of the
\* scores, then float() widens it
SemanticSearch(docs, scores, float32, top_k, tie) ==
    LET top_indices == TopIndices(scores, top_k, tie)
    IN  [k \in 1..Len(top_indices) |->
            Entry(docs[top_indices[k]],
                  NpFloat(F64Div(NpFloat(F64Add(scores[top_indices[k]], F64One), float32),
                                 Two), float32),
                  NoKey, scores[top_indices[k]], k, "Semantic")]

\* SemanticRetriever._encode_documents: one embedding per document, in order;
\* an embedding is identified by the document it encodes
EncodeDocuments(docs) == [i \in 1..Len(docs) |-> docs[i]]

(***************************************************************************)
(* DocumentRanker                                                          *)
(***************************************************************************)
\* r.get('score', r.get('raw_score', 0))
GetScore(r) == IF r.score # NoKey THEN r.score
               ELSE IF r.raw_score # NoKey THEN r.raw_score ELSE F64Zero

\* variant: the raw score is read as the score is, 'score' first
GetRawScoreScoreFirst(r) == IF r.score # NoKey THEN r.score
                            ELSE IF r.raw_score # NoKey THEN r.raw_score ELSE F64Zero

\* r.get('raw_score', r.get('score', 0))
GetRawScore(r) == IF r.raw_score # NoKey THEN r.raw_score
                  ELSE IF r.score # NoKey THEN r.score ELSE F64Zero

\* _normalize_max with the divisor clamped to at least 1, as in BM25Retriever.search
_normalize_max_clamped(scores) ==
    IF scores = << >> THEN << >>
    ELSE LET max_score == F64Max(SeqMax(scores), F64One)
         IN  [i \in DOMAIN scores |-> F64Div(scores[i], max_score)]

_normalize_max(scores) ==
    IF scores = << >> THEN << >>
    ELSE LET max_score == SeqMax(scores)
         IN  IF F64Eq(max_score, F64Zero) THEN [i \in DOMAIN scores |-> F64Zero]
             ELSE [i \in DOMAIN scores |-> F64Div(scores[i], max_score)]

_normalize_fuzzy(scores) == [i \in DOMAIN scores |-> F64Div(scores[i], Hundred)]

_normalize_semantic(scores) == scores

\* self.normalization_methods[model_name](scores), default: scores unchanged
Normalize(model_name, scores) ==
    CASE model_name \in {"BM25", "TF-IDF"} -> _normalize_max(scores)
      [] model_name = "Fuzzy" -> _normalize_fuzzy(scores)
      [] model_name = "Semantic" -> _normalize_semantic(scores)
      [] OTHER -> scores

\* rank_documents numbering the entries from 0 (enumerate index used as the rank)
rank_documents_zero_based(res, model_name, top_k) ==
    IF res = << >> THEN [model |-> model_name, top_k |-> top_k, results |-> << >>]
    ELSE LET scores == [i \in DOMAIN res |-> GetScore(res[i])]
             raw_scores == [i \in DOMAIN res |-> GetRawScore(res[i])]
             normalized_scores == Normalize(model_name, scores)
         IN  [model |-> model_name, top_k |-> top_k,
              results |-> [i \in 1..Len(FirstK(res, top_k)) |->
                  [rank |-> i - 1, doc |-> res[i].doc, score |-> normalized_scores[i],
                   raw_score |-> raw_scores[i], model |-> model_name]]]

rank_documents(res, model_name, top_k) ==
    IF res = << >> THEN [model |-> model_name, top_k |-> top_k, results |-> << >>]
    ELSE LET scores == [i \in DOMAIN res |-> GetScore(res[i])]
             raw_scores == [i \in DOMAIN res |-> GetRawScore(res[i])]
             normalized_scores == Normalize(model_name, scores)
         IN  [model |-> model_name, top_k |-> top_k,
              results |-> [i \in 1..Len(FirstK(res, top_k)) |->
                  [rank |-> i, doc |-> res[i].doc, score |-> normalized_scores[i],
                   raw_score |-> raw_scores[i], model |-> model_name]]]

\* no rank_documents call has been made on the current result list
NoRanked == [model |-> "none", top_k |-> 0, results |-> << >>]
NoCall == [op |-> "none", top_k |-> 0]

(***************************************************************************)
(* Retrieval and ranking: state machine                                    *)
(***************************************************************************)
RankNames == ModelNames \cup {"Other"}

\* result lists a caller can hand to rank_documents directly
SupplyScores == {NoKey, F64FromInt(-2), F64FromInt(-1), IntTrueDiv(3, 5), F64FromInt(3)}
SupplyRaws == {NoKey, F64FromInt(7)}
SupplyLists ==
    UNION {[1..n -> [score : SupplyScores, raw_score : SupplyRaws]] : n \in 0..MaxSupply}

NoMerged == [called |-> FALSE, out |-> << >>]
IdleMerge == allResults = << >> /\ weights = << >> /\ merged = NoMerged
NoFile == [exists |-> FALSE, rows |-> << >>]
IdleLabels ==
    /\ labelRows = NoFile /\ labels = << >> /\ labelKeys = << >>
    /\ allLabels = << >> /\ loaded = FALSE

\* no ConfidenceScorer, metric or evaluate_model call is part of the run
NoConfidence == [called |-> FALSE]
IdleScorer ==
    /\ threshold = F64Zero /\ scorerInput = << >>
    /\ confidence = NoConfidence /\ allConfidence = NoConfidence
NoMetrics == [called |-> FALSE]
NoMetricCall == retrieved_docs = << >> /\ relevant_docs = {} /\ cutoffs = << >> /\ metrics = NoMetrics
\* (the interpreter makes no difference to a run without sum() and str.lower())
IdleMetrics == NoMetricCall /\ pythonMinor = 9
NoEvaluation == [called |-> FALSE]
IdleEval == evalResults = << >> /\ modelEval = NoEvaluation
IdleLater == IdleScorer /\ IdleMetrics /\ IdleEval

\* no repeated-search run, labeling session or profiler is part of the run
NoRetriever == [kind |-> "none"]
NoSession == [pc |-> "none"]
NoProfiler == [current_query |-> "None", timings |-> << >>]
NoClock == [perf_counter |-> 0, time |-> 0]
IdleTools ==
    /\ retriever = NoRetriever /\ searchLog = << >>
    /\ session = NoSession /\ response = "none"
    /\ profiler = NoProfiler /\ frames = << >> /\ clock = NoClock /\ lastExit = "none"

\* the four retrievers built from one collection, no cache file beforehand
InitRetrieval ==
    /\ \E n \in 1..MaxDocs :
         /\ documents = [i \in 1..n |-> i]
         /\ tiePerm \in Perms(n)
    /\ embeddings = EncodeDocuments(documents)
    /\ cacheFile = <<embeddings>>
    /\ results = << >>
    /\ call = NoCall
    /\ raised = FALSE
    /\ ranked = NoRanked
    /\ IdleMerge
    /\ IdleLabels
    /\ IdleLater
    /\ IdleTools

\* one query of the pipeline: a search (or a list supplied by the caller), then
\* rank_documents on the list it returned
Searched(op, top_k, res) ==
    /\ results' = res
    /\ call' = [op |-> op, top_k |-> top_k]
    /\ raised' = FALSE
    /\ ranked' = NoRanked
    /\ UNCHANGED <<documents, embeddings, cacheFile, tiePerm, mergeVars, labelVars, scorerVars, metricVars, evalVars, toolVars>>

SearchBM25 ==
    /\ call = NoCall
    /\ \E scores \in [DOMAIN documents -> BM25Scores], top_k \in 0..MaxTopK :
        Searched("BM25", top_k, BM25Search(documents, scores, top_k, tiePerm))

SearchTFIDF ==
    /\ call = NoCall
    /\ \E scores \in [DOMAIN documents -> TFIDFScores], top_k \in 0..MaxTopK :
        Searched("TF-IDF", top_k, TFIDFSearch(documents, scores, top_k, tiePerm))

SearchFuzzy ==
    /\ call = NoCall
    /\ \E scores \in [DOMAIN documents -> FuzzyScores], top_k \in 0..MaxTopK :
        Searched("Fuzzy", top_k, FuzzySearch(documents, scores, top_k, tiePerm))

SearchSemantic ==
    /\ call = NoCall
    /\ embeddings # << >>
    /\ \E float32 \in BOOLEAN, top_k \in 0..MaxTopK :
       \E scores \in [DOMAIN embeddings -> CosineScores(float32)] :
        IF SemanticRaises(documents, scores, top_k, tiePerm)
        THEN /\ raised' = TRUE
             /\ results' = << >>
             /\ call' = [op |-> "Semantic", top_k |-> top_k]
             /\ ranked' = NoRanked
             /\ UNCHANGED <<documents, embeddings, cacheFile, tiePerm, mergeVars, labelVars, scorerVars, metricVars, evalVars, toolVars>>
        ELSE Searched("Semantic", top_k,
                      SemanticSearch(documents, scores, float32, top_k, tiePerm))

\* a caller passes a list of its own to rank_documents
Supply ==
    /\ call = NoCall
    /\ \E l \in SupplyLists :
        Searched("caller", 0,
                 [i \in DOMAIN l |-> Entry(i, l[i].score, l[i].raw_score, NoKey, i, "caller")])

RankDocuments ==
    /\ call.op # "none"
    /\ ranked = NoRanked
    /\ ~raised
    /\ \E model_name \in RankNames, top_k \in 0..MaxTopK :
         ranked' = rank_documents(results, model_name, top_k)
    /\ UNCHANGED <<documents, embeddings, cacheFile, tiePerm, results, call, raised,
                   mergeVars, labelVars, scorerVars, metricVars, evalVars, toolVars>>

NextRetrieval ==
    \/ SearchBM25
    \/ SearchTFIDF
    \/ SearchFuzzy
    \/ SearchSemantic
    \/ Supply
    \/ RankDocuments

SpecRetrieval == InitRetrieval /\ [][NextRetrieval]_vars

(***************************************************************************)
(* Claims on retrieval and ranking (specification SpecRetrieval)           *)
(***************************************************************************)
Min(a, b) == IF a < b THEN a ELSE b

\* a rank_documents call has been made on the current result list
IsRanked == ranked.model # "none"

\* the list is ordered by non-increasing score / raw score, as rank_documents reads them
ScoreDescending(res) ==
    \A i \in 1..(Len(res) - 1) : F64Leq(GetScore(res[i + 1]), GetScore(res[i]))
RawDescending(res) ==
    \A i \in 1..(Len(res) - 1) : F64Leq(GetRawScore(res[i + 1]), GetRawScore(res[i]))

\* the largest score of a non-empty list
MaxScoreOf(res) ==
    CHOOSE m \in {GetScore(res[i]) : i \in DOMAIN res} :
        \A i \in DOMAIN res : F64Leq(GetScore(res[i]), m)

\* C1: a list returned by FuzzyRetriever.search and ranked under 'Fuzzy' has
\* score = raw_score / 100 in every entry (the division is applied once).
C1_FuzzyDividedOnce ==
    (call.op = "Fuzzy" /\ ranked.model = "Fuzzy") =>
        \A i \in DOMAIN ranked.results :
            ranked.results[i].score = F64Div(ranked.results[i].raw_score, Hundred)

\* C5: a list returned by a retriever's search (BM25 raw scores >= 0) and ranked
\* under the matching model name has every normalized score in [0,1].
C5_NormalizedInUnitInterval ==
    ( /\ call.op \in ModelNames
      /\ ranked.model = call.op
      /\ call.op = "BM25" => \A i \in DOMAIN results : F64Leq(F64Zero, results[i].raw_score) )
    => \A i \in DOMAIN ranked.results :
           /\ F64Leq(F64Zero, ranked.results[i].score)
           /\ F64Leq(ranked.results[i].score, F64One)

\* a Semantic search result holding cosines 1 and -1 has been ranked under 'Semantic'
C5_Witness ==
    /\ call.op = "Semantic" /\ ranked.model = "Semantic"
    /\ Len(ranked.results) >= 2
    /\ results[1].cosine_score = F64One
    /\ \E i \in DOMAIN ranked.results :
           results[i].cosine_score = F64FromInt(-1) /\ ranked.results[i].score = F64Zero

\* C6: under 'BM25' or 'TF-IDF', a non-empty list ordered by descending score
\* with a nonzero maximum and top_k >= 1 gets score 1 at rank 1; with maximum 0
\* every normalized score is 0.
C6_MaxNormalizedTopIsOne ==
    (ranked.model \in {"BM25", "TF-IDF"} /\ results # << >> /\ ScoreDescending(results)) =>
        /\ (MaxScoreOf(results) # F64Zero /\ ranked.top_k >= 1) =>
               (ranked.results # << >> /\ ranked.results[1].score = F64One)
        /\ MaxScoreOf(results) = F64Zero =>
               \A i \in DOMAIN ranked.results : ranked.results[i].score = F64Zero

\* a BM25 search result whose top score is 0.6 has been max-normalized to 1
C6_Witness ==
    /\ call.op = "BM25" /\ ranked.model = "BM25"
    /\ Len(ranked.results) >= 2
    /\ results[1].score = IntTrueDiv(3, 5)
    /\ ranked.results[1].score = F64One
    /\ ranked.results[2].score # F64One

\* C7: BM25Retriever.search divides by the maximum of the returned set: with a
\* nonzero highest raw score the rank-1 score is 1 and every score is
\* raw_score / maximum; with maximum 0 every score is 0.  (Stated for the
\* non-negative raw scores the claim is about.)
C7_BM25TopIsOne ==
    ( /\ call.op = "BM25" /\ results # << >>
      /\ \A i \in DOMAIN results : F64Leq(F64Zero, results[i].raw_score) ) =>
        /\ results[1].raw_score # F64Zero =>
             /\ results[1].score = F64One
             /\ \A i \in DOMAIN results :
                    results[i].score = F64Div(results[i].raw_score, results[1].raw_score)
        /\ results[1].raw_score = F64Zero =>
             \A i \in DOMAIN results : results[i].score = F64Zero

\* C8 as stated: for any input list, ranks are 1, 2, 3, ... and raw_score and
\* score are non-increasing as rank increases.
C8_SortedForAnyInput ==
    IsRanked =>
        /\ \A i \in DOMAIN ranked.results : ranked.results[i].rank = i
        /\ RawDescending(ranked.results)
        /\ ScoreDescending(ranked.results)

\* C8 amended: ranks are 1, 2, 3, ...; rank_documents keeps the input order, so
\* raw_score is non-increasing when the input's raw scores are, and score is
\* non-increasing when the input's scores are and their maximum is not negative.
C8_OrderKept ==
    IsRanked =>
        /\ \A i \in DOMAIN ranked.results : ranked.results[i].rank = i
        /\ RawDescending(results) => RawDescending(ranked.results)
        /\ (ScoreDescending(results) /\ results # << >> /\ F64Leq(F64Zero, MaxScoreOf(results)))
               => ScoreDescending(ranked.results)

\* a search result with two different scores has been ranked in full
C8_Witness ==
    /\ call.op \in ModelNames /\ IsRanked
    /\ Len(ranked.results) >= 2
    /\ ranked.results[1].score # ranked.results[2].score
    /\ ranked.results[2].rank = 2

\* C9: in a retriever's search result, documents with equal scores appear in
\* collection order.
C9_TiesInCollectionOrder ==
    (call.op \in ModelNames /\ ~raised) =>
        \A a, b \in DOMAIN results :
            (a < b /\ results[a].score = results[b].score) =>
                Pos(documents, results[a].doc) < Pos(documents, results[b].doc)

\* C10: search returns exactly min(top_k, collection size) entries.
C10_ResultLength ==
    (call.op \in ModelNames /\ ~raised) =>
        Len(results) = Min(call.top_k, Len(documents))

(***************************************************************************)
(* DocumentRanker.merge_rankings                                           *)
(*   all_results: the dict as the sequence of its items in insertion order,*)
(*   each [name, results]; weights: [none |-> weights is None, map |-> the *)
(*   dict]; doc_scores: the dict as the sequence of its items.             *)
(***************************************************************************)
\* the float literals 0.3 and 0.2
DefaultWeights ==
    [m \in ModelNames |->
        IF m \in {"BM25", "Semantic"} THEN IntTrueDiv(3, 10) ELSE IntTrueDiv(2, 10)]

\* variant: the weighted score is assigned, not accumulated
AddResultOverwrite(doc_scores, result, model_name, weight) ==
    LET known == \E k \in DOMAIN doc_scores : doc_scores[k].doc = result.doc
        ds == IF known THEN doc_scores
              ELSE Append(doc_scores,
                          [doc |-> result.doc, weighted_score |-> F64Zero,
                           model_scores |-> << >>])
        k == CHOOSE j \in DOMAIN ds : ds[j].doc = result.doc
    IN  [ds EXCEPT ![k] =
            [doc |-> ds[k].doc,
             weighted_score |-> F64Mul(result.score, weight),
             model_scores |-> [m \in (DOMAIN ds[k].model_scores) \cup {model_name} |->
                                  IF m = model_name THEN result.score
                                  ELSE ds[k].model_scores[m]]]]

\* doc_scores after one more result of model_name:
\* weighted_score += result['score'] * weight, in floats
AddResult(doc_scores, result, model_name, weight) ==
    LET known == \E k \in DOMAIN doc_scores : doc_scores[k].doc = result.doc
        ds == IF known THEN doc_scores
              ELSE Append(doc_scores,
                          [doc |-> result.doc, weighted_score |-> F64Zero,
                           model_scores |-> << >>])
        k == CHOOSE j \in DOMAIN ds : ds[j].doc = result.doc
    IN  [ds EXCEPT ![k] =
            [doc |-> ds[k].doc,
             weighted_score |-> F64Add(ds[k].weighted_score,
                                       F64Mul(result.score, weight)),
             model_scores |-> [m \in (DOMAIN ds[k].model_scores) \cup {model_name} |->
                                  IF m = model_name THEN result.score
                                  ELSE ds[k].model_scores[m]]]]

RECURSIVE AddResults(_, _, _, _)
AddResults(doc_scores, res, model_name, weight) ==
    IF res = << >> THEN doc_scores
    ELSE AddResults(AddResult(doc_scores, Head(res), model_name, weight),
                    Tail(res), model_name, weight)

RECURSIVE Aggregate(_, _, _)
Aggregate(doc_scores, all_results, w) ==
    IF all_results = << >> THEN doc_scores
    ELSE LET item == Head(all_results)
         IN  IF item.name \notin DOMAIN w
             THEN Aggregate(doc_scores, Tail(all_results), w)
             ELSE Aggregate(AddResults(doc_scores, item.results, item.name, w[item.name]),
                            Tail(all_results), w)

\* variant: an entry is placed before the entries of equal weighted score
RECURSIVE InsertDescBeforeEqual(_, _)
InsertDescBeforeEqual(sorted, x) ==
    IF sorted = << >> THEN <<x>>
    ELSE IF F64Leq(Head(sorted).weighted_score, x.weighted_score)
         THEN <<x>> \o sorted
         ELSE <<Head(sorted)>> \o InsertDescBeforeEqual(Tail(sorted), x)

\* sorted(..., key=weighted_score, reverse=True): stable, equal keys keep their order
RECURSIVE InsertDesc(_, _)
InsertDesc(sorted, x) ==
    IF sorted = << >> THEN <<x>>
    ELSE IF F64Lt(Head(sorted).weighted_score, x.weighted_score)
         THEN <<x>> \o sorted
         ELSE <<Head(sorted)>> \o InsertDesc(Tail(sorted), x)

RECURSIVE SortedDesc(_)
SortedDesc(s) ==
    IF s = << >> THEN << >>
    ELSE InsertDesc(SortedDesc(SubSeq(s, 1, Len(s) - 1)), s[Len(s)])

merge_rankings(all_results, wts) ==
    LET w == IF wts.none THEN DefaultWeights ELSE wts.map
        sorted_docs == SortedDesc(Aggregate(<< >>, all_results, w))
    IN  [r \in DOMAIN sorted_docs |->
            [rank |-> r, doc |-> sorted_docs[r].doc,
             score |-> sorted_docs[r].weighted_score,
             model_scores |-> sorted_docs[r].model_scores, model |-> "Hybrid"]]

(***************************************************************************)
(* Weighted fusion: state machine                                          *)
(***************************************************************************)
MergeModels == {"BM25", "TF-IDF"}
MergeDocs == {1, 2}
\* the scores 0.5 and 1.0; the weights 0.0, 0.5 and 1.0
MergeScores == {IntTrueDiv(1, 2), F64One}
MergeWeights == {F64Zero, IntTrueDiv(1, 2), F64One}

\* the 'results' of one model's ranked result
MergeLists ==
    UNION {[1..n -> [doc : MergeDocs, score : MergeScores]] : n \in 0..MaxMergeLen}

MergeInputs ==
    {<< >>}
    \cup {<<[name |-> a, results |-> l]>> : a \in MergeModels, l \in MergeLists}
    \cup {x \in {<<[name |-> a, results |-> l], [name |-> b, results |-> k]>> :
                     a \in MergeModels, b \in MergeModels,
                     l \in MergeLists, k \in MergeLists} : x[1].name # x[2].name}

\* BM25, TF-IDF and Fuzzy each returning one document
ThreeModelInputs ==
    {<<[name |-> "BM25", results |-> <<a>>], [name |-> "TF-IDF", results |-> <<b>>],
       [name |-> "Fuzzy", results |-> <<c>>]>> :
         a \in [doc : MergeDocs, score : MergeScores],
         b \in [doc : MergeDocs, score : MergeScores],
         c \in [doc : MergeDocs, score : MergeScores]}

WeightMaps ==
    {[none |-> TRUE, map |-> << >>]}
    \cup UNION {{[none |-> FALSE, map |-> f] : f \in [D -> MergeWeights]} :
                   D \in SUBSET MergeModels}

IdleRetrieval ==
    /\ documents = << >> /\ embeddings = << >> /\ cacheFile = << >> /\ tiePerm = << >>
    /\ results = << >> /\ call = NoCall /\ raised = FALSE /\ ranked = NoRanked

InitMerge ==
    /\ allResults \in MergeInputs \cup ThreeModelInputs
    /\ weights \in WeightMaps
    /\ merged = NoMerged
    /\ IdleRetrieval
    /\ IdleLabels
    /\ IdleLater
    /\ IdleTools

MergeRankings ==
    /\ ~merged.called
    /\ merged' = [called |-> TRUE, out |-> merge_rankings(allResults, weights)]
    /\ UNCHANGED <<allResults, weights, retrievalVars, labelVars, scorerVars, metricVars, evalVars, toolVars>>

NextMerge == MergeRankings

SpecMerge == InitMerge /\ [][NextMerge]_vars

\* all_results with model m left out
Without(all_results, m) ==
    LET keep == {i \in DOMAIN all_results : all_results[i].name # m}
        RECURSIVE Pick(_)
        Pick(i) == IF i > Len(all_results) THEN << >>
                   ELSE (IF i \in keep THEN <<all_results[i]>> ELSE << >>) \o Pick(i + 1)
    IN  Pick(1)

\* C2: a model with weight 0 is equivalent to a model left out of the input:
\* same documents, same combined scores, same order.
C2_ZeroWeightIsOmission ==
    merged.called =>
        \A i \in DOMAIN allResults :
            LET w == IF weights.none THEN DefaultWeights ELSE weights.map
                m == allResults[i].name
            IN  (m \in DOMAIN w /\ F64Eq(w[m], F64Zero)) =>
                    merged.out = merge_rankings(Without(allResults, m), weights)

\* the weight map in force
WeightsUsed == IF weights.none THEN DefaultWeights ELSE weights.map

\* the models of the input that have a weight
WeightedItems == {i \in DOMAIN allResults : allResults[i].name \in DOMAIN WeightsUsed}

\* the documents returned by at least one weighted model
ReturnedDocs ==
    UNION {{allResults[i].results[j].doc : j \in DOMAIN allResults[i].results} :
              i \in WeightedItems}

\* the float products weight * score of the entries of one model's list
\* that hold document d, in list order
Contribution(res, weight, d) ==
    LET held == SelectSeq(res, LAMBDA entry : entry.doc = d)
    IN  [j \in DOMAIN held |-> F64Mul(weight, held[j].score)]

\* the products of the weighted models for document d, models in input
\* order, from model i on
RECURSIVE ContributionsFrom(_, _)
ContributionsFrom(i, d) ==
    IF i > Len(allResults) THEN << >>
    ELSE (IF i \in WeightedItems
          THEN Contribution(allResults[i].results, WeightsUsed[allResults[i].name], d)
          ELSE << >>) \o ContributionsFrom(i + 1, d)

\* the float sum of the first n products, added one after the other to 0.0
RECURSIVE AddedUp(_, _)
AddedUp(products, n) ==
    IF n = 0 THEN F64Zero ELSE F64Add(AddedUp(products, n - 1), products[n])

\* the combined score the claim gives document d
CombinedFrom(i, d) == AddedUp(ContributionsFrom(i, d), Len(ContributionsFrom(i, d)))

\* C15: the merged list holds every document returned by at least one
\* weighted model exactly once, with a combined score equal to the sum over
\* the models that returned it of weight(model) * the model's score for it;
\* a model that did not return the document contributes 0.  Scores, weights
\* and sums are floats: each product and each addition is rounded, and the
\* products are added in the order the models and their entries come.
C15_CombinedScoreIsWeightedSum ==
    merged.called =>
        /\ {merged.out[r].doc : r \in DOMAIN merged.out} = ReturnedDocs
        /\ \A r, q \in DOMAIN merged.out :
               merged.out[r].doc = merged.out[q].doc => r = q
        /\ \A r \in DOMAIN merged.out :
               merged.out[r].score = CombinedFrom(1, merged.out[r].doc)

\* two weighted models with non-zero weights return one document with
\* non-zero scores, and one of them alone returns another document
C15_Witness ==
    /\ merged.called
    /\ Len(allResults) = 2
    /\ \A i \in 1..2 : /\ allResults[i].name \in DOMAIN WeightsUsed
                        /\ WeightsUsed[allResults[i].name] # F64Zero
    /\ \E d, e \in MergeDocs :
          /\ d # e
          /\ \A i \in 1..2 : \E j \in DOMAIN allResults[i].results :
                 /\ allResults[i].results[j].doc = d
                 /\ allResults[i].results[j].score # F64Zero
          /\ \E j \in DOMAIN allResults[1].results : allResults[1].results[j].doc = e
          /\ \A j \in DOMAIN allResults[2].results : allResults[2].results[j].doc # e
          /\ \E r \in DOMAIN merged.out : merged.out[r].doc = e

(***************************************************************************)
(* SystemEvaluator: loading the relevance judgments                        *)
(*   A string is the sequence of its characters.  A row is what            *)
(*   csv.DictReader yields: a short line leaves its trailing fields None.  *)
(***************************************************************************)
NoneVal == <<"None">>

\* A character is a one-character string.  A TLA+ string can hold the code
\* points below U+0100 other than the grave accent, and the code points of
\* the Basic Multilingual Plane whose low byte is 0x80 or more; the tables
\* below list what the interpreter's character database says about these
\* characters.  A lower-case letter that such a string cannot hold is
\* written by its code point, as in "U+0253".

\* Py_UNICODE_ISSPACE, the characters str.strip() removes: tab, line feed,
\* vertical tab, form feed, carriage return, the separators 0x1c-0x1f, space,
\* next line (0x85), no-break space (0xa0) and the ogham space mark (U+1680)
Whitespace ==
    {"\t", "\n", "", "\f", "\r", "", "", "", "", " ", "", " ", " "}

\* str.strip(): leading and trailing whitespace removed
RECURSIVE LStrip(_)
LStrip(s) == IF s # << >> /\ Head(s) \in Whitespace THEN LStrip(Tail(s)) ELSE s
Strip(s) == Reverse(LStrip(Reverse(LStrip(s))))

\* the characters that have a lower-case form of their own, and that form
\* (_PyUnicode_ToLowerFull), in Unicode 13.0.0, the character database of
\* CPython 3.9 and 3.10
UpperLetters ==
    <<"A", "B", "C", "D", "E", "F", "G", "H", "I", "J", "K", "L", "M", "N",
      "O", "P", "Q", "R", "S", "T", "U", "V", "W", "X", "Y", "Z", "À", "Á",
      "Â", "Ã", "Ä", "Å", "Æ", "Ç", "È", "É", "Ê", "Ë", "Ì", "Í", "Î", "Ï",
      "Ð", "Ñ", "Ò", "Ó", "Ô", "Õ", "Ö", "Ø", "Ù", "Ú", "Û", "Ü", "Ý", "Þ",
      "Ɓ", "Ƃ", "Ƅ", "Ɔ", "Ƈ", "Ɖ", "Ɗ", "Ƌ", "Ǝ", "Ə", "Ɛ", "Ƒ", "Ɠ", "Ɣ",
      "Ɩ", "Ɨ", "Ƙ", "Ɯ", "Ɲ", "Ɵ", "Ơ", "Ƣ", "Ƥ", "Ʀ", "Ƨ", "Ʃ", "Ƭ", "Ʈ",
      "Ư", "Ʊ", "Ʋ", "Ƴ", "Ƶ", "Ʒ", "Ƹ", "Ƽ", "Ǆ", "ǅ", "Ǉ", "ǈ", "Ǌ", "ǋ",
      "Ǎ", "Ǐ", "Ǒ", "Ǔ", "Ǖ", "Ǘ", "Ǚ", "Ǜ", "Ǟ", "Ǡ", "Ǣ", "Ǥ", "Ǧ", "Ǩ",
      "Ǫ", "Ǭ", "Ǯ", "Ǳ", "ǲ", "Ǵ", "Ƕ", "Ƿ", "Ǹ", "Ǻ", "Ǽ", "Ǿ", "Ά", "Έ",
      "Ή", "Ί", "Ό", "Ύ", "Ώ", "Α", "Β", "Γ", "Δ", "Ε", "Ζ", "Η", "Θ", "Ι",
      "Κ", "Λ", "Μ", "Ν", "Ξ", "Ο", "Π", "Ρ", "Σ", "Τ", "Υ", "Φ", "Χ", "Ψ",
      "Ω", "Ϊ", "Ϋ", "Ϗ", "Ϙ", "Ϛ", "Ϝ", "Ϟ", "Ϡ", "Ϣ", "Ϥ", "Ϧ", "Ϩ", "Ϫ",
      "Ϭ", "Ϯ", "ϴ", "Ϸ", "Ϲ", "Ϻ", "Ͻ", "Ͼ", "Ͽ", "Ҁ", "Ҋ", "Ҍ", "Ҏ", "Ґ",
      "Ғ", "Ҕ", "Җ", "Ҙ", "Қ", "Ҝ", "Ҟ", "Ҡ", "Ң", "Ҥ", "Ҧ", "Ҩ", "Ҫ", "Ҭ",
      "Ү", "Ұ", "Ҳ", "Ҵ", "Ҷ", "Ҹ", "Һ", "Ҽ", "Ҿ", "Ӏ", "Ӂ", "Ӄ", "Ӆ", "Ӈ",
      "Ӊ", "Ӌ", "Ӎ", "Ӑ", "Ӓ", "Ӕ", "Ӗ", "Ә", "Ӛ", "Ӝ", "Ӟ", "Ӡ", "Ӣ", "Ӥ",
      "Ӧ", "Ө", "Ӫ", "Ӭ", "Ӯ", "Ӱ", "Ӳ", "Ӵ", "Ӷ", "Ӹ", "Ӻ", "Ӽ", "Ӿ", "Ⴀ",
      "Ⴁ", "Ⴂ", "Ⴃ", "Ⴄ", "Ⴅ", "Ⴆ", "Ⴇ", "Ⴈ", "Ⴉ", "Ⴊ", "Ⴋ", "Ⴌ", "Ⴍ", "Ⴎ",
      "Ⴏ", "Ⴐ", "Ⴑ", "Ⴒ", "Ⴓ", "Ⴔ", "Ⴕ", "Ⴖ", "Ⴗ", "Ⴘ", "Ⴙ", "Ⴚ", "Ⴛ", "Ⴜ",
      "Ⴝ", "Ⴞ", "Ⴟ", "Ⴠ", "Ⴡ", "Ⴢ", "Ⴣ", "Ⴤ", "Ⴥ", "Ⴧ", "Ⴭ", "Ꭰ", "Ꭱ", "Ꭲ",
      "Ꭳ", "Ꭴ", "Ꭵ", "Ꭶ", "Ꭷ", "Ꭸ", "Ꭹ", "Ꭺ", "Ꭻ", "Ꭼ", "Ꭽ", "Ꭾ", "Ꭿ", "Ꮀ",
      "Ꮁ", "Ꮂ", "Ꮃ", "Ꮄ", "Ꮅ", "Ꮆ", "Ꮇ", "Ꮈ", "Ꮉ", "Ꮊ", "Ꮋ", "Ꮌ", "Ꮍ", "Ꮎ",
      "Ꮏ", "Ꮐ", "Ꮑ", "Ꮒ", "Ꮓ", "Ꮔ", "Ꮕ", "Ꮖ", "Ꮗ", "Ꮘ", "Ꮙ", "Ꮚ", "Ꮛ", "Ꮜ",
      "Ꮝ", "Ꮞ", "Ꮟ", "Ꮠ", "Ꮡ", "Ꮢ", "Ꮣ", "Ꮤ", "Ꮥ", "Ꮦ", "Ꮧ", "Ꮨ", "Ꮩ", "Ꮪ",
      "Ꮫ", "Ꮬ", "Ꮭ", "Ꮮ", "Ꮯ", "Ꮰ", "Ꮱ", "Ꮲ", "Ꮳ", "Ꮴ", "Ꮵ", "Ꮶ", "Ꮷ", "Ꮸ",
      "Ꮹ", "Ꮺ", "Ꮻ", "Ꮼ", "Ꮽ", "Ꮾ", "Ꮿ", "Ᏸ", "Ᏹ", "Ᏺ", "Ᏻ", "Ᏼ", "Ᏽ", "Ა",
      "Ბ", "Გ", "Დ", "Ე", "Ვ", "Ზ", "Თ", "Ი", "Კ", "Ლ", "Მ", "Ნ", "Ო", "Პ",
      "Ჟ", "Რ", "Ს", "Ტ", "Უ", "Ფ", "Ქ", "Ღ", "Ყ", "Შ", "Ჩ", "Ც", "Ძ", "Წ",
      "Ჭ", "Ხ", "Ჯ", "Ჰ", "Ჱ", "Ჲ", "Ჳ", "Ჴ", "Ჵ", "Ჶ", "Ჷ", "Ჸ", "Ჹ", "Ჺ",
      "Ჽ", "Ჾ", "Ჿ", "Ẁ", "Ẃ", "Ẅ", "Ẇ", "Ẉ", "Ẋ", "Ẍ", "Ẏ", "Ẑ", "Ẓ", "Ẕ",
      "ẞ", "Ạ", "Ả", "Ấ", "Ầ", "Ẩ", "Ẫ", "Ậ", "Ắ", "Ằ", "Ẳ", "Ẵ", "Ặ", "Ẹ",
      "Ẻ", "Ẽ", "Ế", "Ề", "Ể", "Ễ", "Ệ", "Ỉ", "Ị", "Ọ", "Ỏ", "Ố", "Ồ", "Ổ",
      "Ỗ", "Ộ", "Ớ", "Ờ", "Ở", "Ỡ", "Ợ", "Ụ", "Ủ", "Ứ", "Ừ", "Ử", "Ữ", "Ự",
      "Ỳ", "Ỵ", "Ỷ", "Ỹ", "Ỻ", "Ỽ", "Ỿ", "ᾈ", "ᾉ", "ᾊ", "ᾋ", "ᾌ", "ᾍ", "ᾎ",
      "ᾏ", "ᾘ", "ᾙ", "ᾚ", "ᾛ", "ᾜ", "ᾝ", "ᾞ", "ᾟ", "ᾨ", "ᾩ", "ᾪ", "ᾫ", "ᾬ",
      "ᾭ", "ᾮ", "ᾯ", "Ᾰ", "Ᾱ", "Ὰ", "Ά", "ᾼ", "Ὲ", "Έ", "Ὴ", "Ή", "ῌ", "Ῐ",
      "Ῑ", "Ὶ", "Ί", "Ῠ", "Ῡ", "Ὺ", "Ύ", "Ῥ", "Ὸ", "Ό", "Ὼ", "Ώ", "ῼ", "Ↄ",
      "Ⓐ", "Ⓑ", "Ⓒ", "Ⓓ", "Ⓔ", "Ⓕ", "Ⓖ", "Ⓗ", "Ⓘ", "Ⓙ", "Ⓚ", "Ⓛ", "Ⓜ", "Ⓝ",
      "Ⓞ", "Ⓟ", "Ⓠ", "Ⓡ", "Ⓢ", "Ⓣ", "Ⓤ", "Ⓥ", "Ⓦ", "Ⓧ", "Ⓨ", "Ⓩ", "Ⲁ", "Ⲃ",
      "Ⲅ", "Ⲇ", "Ⲉ", "Ⲋ", "Ⲍ", "Ⲏ", "Ⲑ", "Ⲓ", "Ⲕ", "Ⲗ", "Ⲙ", "Ⲛ", "Ⲝ", "Ⲟ",
      "Ⲡ", "Ⲣ", "Ⲥ", "Ⲧ", "Ⲩ", "Ⲫ", "Ⲭ", "Ⲯ", "Ⲱ", "Ⲳ", "Ⲵ", "Ⲷ", "Ⲹ", "Ⲻ",
      "Ⲽ", "Ⲿ", "Ⳁ", "Ⳃ", "Ⳅ", "Ⳇ", "Ⳉ", "Ⳋ", "Ⳍ", "Ⳏ", "Ⳑ", "Ⳓ", "Ⳕ", "Ⳗ",
      "Ⳙ", "Ⳛ", "Ⳝ", "Ⳟ", "Ⳡ", "Ⳣ", "Ⳬ", "Ⳮ", "Ⳳ", "Ꚁ", "Ꚃ", "Ꚅ", "Ꚇ", "Ꚉ",
      "Ꚋ", "Ꚍ", "Ꚏ", "Ꚑ", "Ꚓ", "Ꚕ", "Ꚗ", "Ꚙ", "Ꚛ", "Ꞁ", "Ꞃ", "Ꞅ", "Ꞇ", "Ꞌ",
      "Ɥ", "Ꞑ", "Ꞓ", "Ꞗ", "Ꞙ", "Ꞛ", "Ꞝ", "Ꞟ", "Ꞡ", "Ꞣ", "Ꞥ", "Ꞧ", "Ꞩ", "Ɦ",
      "Ɜ", "Ɡ", "Ɬ", "Ɪ", "Ʞ", "Ʇ", "Ʝ", "Ꭓ", "Ꞵ", "Ꞷ", "Ꞹ", "Ꞻ", "Ꞽ", "Ꞿ",
      "Ꟃ", "Ꞔ", "Ʂ", "Ᶎ", "Ꟈ", "Ꟊ", "Ꟶ">>
LowerLetters ==
    <<"a", "b", "c", "d", "e", "f", "g", "h", "i", "j", "k", "l", "m", "n",
      "o", "p", "q", "r", "s", "t", "u", "v", "w", "x", "y", "z", "à", "á",
      "â", "ã", "ä", "å", "æ", "ç", "è", "é", "ê", "ë", "ì", "í", "î", "ï",
      "ð", "ñ", "ò", "ó", "ô", "õ", "ö", "ø", "ù", "ú", "û", "ü", "ý", "þ",
      "U+0253", "ƃ", "ƅ", "U+0254", "ƈ", "U+0256", "U+0257", "ƌ", "ǝ",
      "U+0259", "U+025B", "ƒ", "U+0260", "U+0263", "U+0269", "U+0268", "ƙ",
      "U+026F", "U+0272", "U+0275", "ơ", "ƣ", "ƥ", "ʀ", "ƨ", "ʃ", "ƭ", "ʈ",
      "ư", "ʊ", "ʋ", "ƴ", "ƶ", "ʒ", "ƹ", "ƽ", "ǆ", "ǆ", "ǉ", "ǉ", "ǌ", "ǌ",
      "ǎ", "ǐ", "ǒ", "ǔ", "ǖ", "ǘ", "ǚ", "ǜ", "ǟ", "ǡ", "ǣ", "ǥ", "ǧ", "ǩ",
      "ǫ", "ǭ", "ǯ", "ǳ", "ǳ", "ǵ", "ƕ", "ƿ", "ǹ", "ǻ", "ǽ", "ǿ", "ά", "έ",
      "ή", "ί", "ό", "ύ", "ώ", "α", "β", "γ", "δ", "ε", "ζ", "η", "θ", "ι",
      "κ", "λ", "μ", "ν", "ξ", "ο", "π", "ρ", "σ", "τ", "υ", "φ", "χ", "ψ",
      "ω", "ϊ", "ϋ", "ϗ", "ϙ", "ϛ", "ϝ", "ϟ", "ϡ", "ϣ", "ϥ", "ϧ", "ϩ", "ϫ",
      "ϭ", "ϯ", "θ", "ϸ", "ϲ", "ϻ", "U+037B", "U+037C", "U+037D", "ҁ", "ҋ",
      "ҍ", "ҏ", "ґ", "ғ", "ҕ", "җ", "ҙ", "қ", "ҝ", "ҟ", "ҡ", "ң", "ҥ", "ҧ",
      "ҩ", "ҫ", "ҭ", "ү", "ұ", "ҳ", "ҵ", "ҷ", "ҹ", "һ", "ҽ", "ҿ", "ӏ", "ӂ",
      "ӄ", "ӆ", "ӈ", "ӊ", "ӌ", "ӎ", "ӑ", "ӓ", "ӕ", "ӗ", "ә", "ӛ", "ӝ", "ӟ",
      "ӡ", "ӣ", "ӥ", "ӧ", "ө", "ӫ", "ӭ", "ӯ", "ӱ", "ӳ", "ӵ", "ӷ", "ӹ", "ӻ",
      "ӽ", "ӿ", "U+2D00", "U+2D01", "U+2D02", "U+2D03", "U+2D04", "U+2D05",
      "U+2D06", "U+2D07", "U+2D08", "U+2D09", "U+2D0A", "U+2D0B", "U+2D0C",
      "U+2D0D", "U+2D0E", "U+2D0F", "U+2D10", "U+2D11", "U+2D12", "U+2D13",
      "U+2D14", "U+2D15", "U+2D16", "U+2D17", "U+2D18", "U+2D19", "U+2D1A",
      "U+2D1B", "U+2D1C", "U+2D1D", "U+2D1E", "U+2D1F", "U+2D20", "U+2D21",
      "U+2D22", "U+2D23", "U+2D24", "U+2D25", "U+2D27", "U+2D2D", "U+AB70",
      "U+AB71", "U+AB72", "U+AB73", "U+AB74", "U+AB75", "U+AB76", "U+AB77",
      "U+AB78", "U+AB79", "U+AB7A", "U+AB7B", "U+AB7C", "U+AB7D", "U+AB7E",
      "U+AB7F", "ꮀ", "ꮁ", "ꮂ", "ꮃ", "ꮄ", "ꮅ", "ꮆ", "ꮇ", "ꮈ", "ꮉ", "ꮊ", "ꮋ",
      "ꮌ", "ꮍ", "ꮎ", "ꮏ", "ꮐ", "ꮑ", "ꮒ", "ꮓ", "ꮔ", "ꮕ", "ꮖ", "ꮗ", "ꮘ", "ꮙ",
      "ꮚ", "ꮛ", "ꮜ", "ꮝ", "ꮞ", "ꮟ", "ꮠ", "ꮡ", "ꮢ", "ꮣ", "ꮤ", "ꮥ", "ꮦ", "ꮧ",
      "ꮨ", "ꮩ", "ꮪ", "ꮫ", "ꮬ", "ꮭ", "ꮮ", "ꮯ", "ꮰ", "ꮱ", "ꮲ", "ꮳ", "ꮴ", "ꮵ",
      "ꮶ", "ꮷ", "ꮸ", "ꮹ", "ꮺ", "ꮻ", "ꮼ", "ꮽ", "ꮾ", "ꮿ", "ᏸ", "ᏹ", "ᏺ", "ᏻ",
      "ᏼ", "ᏽ", "ა", "ბ", "გ", "დ", "ე", "ვ", "ზ", "თ", "ი", "კ", "ლ", "მ",
      "ნ", "ო", "პ", "ჟ", "რ", "ს", "ტ", "უ", "ფ", "ქ", "ღ", "ყ", "შ", "ჩ",
      "ც", "ძ", "წ", "ჭ", "ხ", "ჯ", "ჰ", "ჱ", "ჲ", "ჳ", "ჴ", "ჵ", "ჶ", "ჷ",
      "ჸ", "ჹ", "ჺ", "ჽ", "ჾ", "ჿ", "ẁ", "ẃ", "ẅ", "ẇ", "ẉ", "ẋ", "ẍ", "ẏ",
      "ẑ", "ẓ", "ẕ", "ß", "ạ", "ả", "ấ", "ầ", "ẩ", "ẫ", "ậ", "ắ", "ằ", "ẳ",
      "ẵ", "ặ", "ẹ", "ẻ", "ẽ", "ế", "ề", "ể", "ễ", "ệ", "ỉ", "ị", "ọ", "ỏ",
      "ố", "ồ", "ổ", "ỗ", "ộ", "ớ", "ờ", "ở", "ỡ", "ợ", "ụ", "ủ", "ứ", "ừ",
      "ử", "ữ", "ự", "ỳ", "ỵ", "ỷ", "ỹ", "ỻ", "ỽ", "ỿ", "ᾀ", "ᾁ", "ᾂ", "ᾃ",
      "ᾄ", "ᾅ", "ᾆ", "ᾇ", "ᾐ", "ᾑ", "ᾒ", "ᾓ", "ᾔ", "ᾕ", "ᾖ", "ᾗ", "ᾠ", "ᾡ",
      "ᾢ", "ᾣ", "ᾤ", "ᾥ", "ᾦ", "ᾧ", "ᾰ", "ᾱ", "U+1F70", "U+1F71", "ᾳ",
      "U+1F72", "U+1F73", "U+1F74", "U+1F75", "ῃ", "ῐ", "ῑ", "U+1F76",
      "U+1F77", "ῠ", "ῡ", "U+1F7A", "U+1F7B", "ῥ", "U+1F78", "U+1F79",
      "U+1F7C", "U+1F7D", "ῳ", "ↄ", "ⓐ", "ⓑ", "ⓒ", "ⓓ", "ⓔ", "ⓕ", "ⓖ", "ⓗ",
      "ⓘ", "ⓙ", "ⓚ", "ⓛ", "ⓜ", "ⓝ", "ⓞ", "ⓟ", "ⓠ", "ⓡ", "ⓢ", "ⓣ", "ⓤ", "ⓥ",
      "ⓦ", "ⓧ", "ⓨ", "ⓩ", "ⲁ", "ⲃ", "ⲅ", "ⲇ", "ⲉ", "ⲋ", "ⲍ", "ⲏ", "ⲑ", "ⲓ",
      "ⲕ", "ⲗ", "ⲙ", "ⲛ", "ⲝ", "ⲟ", "ⲡ", "ⲣ", "ⲥ", "ⲧ", "ⲩ", "ⲫ", "ⲭ", "ⲯ",
      "ⲱ", "ⲳ", "ⲵ", "ⲷ", "ⲹ", "ⲻ", "ⲽ", "ⲿ", "ⳁ", "ⳃ", "ⳅ", "ⳇ", "ⳉ", "ⳋ",
      "ⳍ", "ⳏ", "ⳑ", "ⳓ", "ⳕ", "ⳗ", "ⳙ", "ⳛ", "ⳝ", "ⳟ", "ⳡ", "ⳣ", "ⳬ", "ⳮ",
      "ⳳ", "ꚁ", "ꚃ", "ꚅ", "ꚇ", "ꚉ", "ꚋ", "ꚍ", "ꚏ", "ꚑ", "ꚓ", "ꚕ", "ꚗ", "ꚙ",
      "ꚛ", "ꞁ", "ꞃ", "ꞅ", "ꞇ", "ꞌ", "U+0265", "ꞑ", "ꞓ", "ꞗ", "ꞙ", "ꞛ", "ꞝ",
      "ꞟ", "ꞡ", "ꞣ", "ꞥ", "ꞧ", "ꞩ", "U+0266", "U+025C", "U+0261", "U+026C",
      "U+026A", "ʞ", "ʇ", "ʝ", "U+AB53", "ꞵ", "ꞷ", "ꞹ", "ꞻ", "ꞽ", "ꞿ", "ꟃ",
      "ꞔ", "ʂ", "ᶎ", "ꟈ", "ꟊ", "ꟶ">>

\* the lower-case form of a character under the interpreter's version of
\* Unicode (13: CPython 3.9 and 3.10, 14: CPython 3.11, 15: CPython 3.12 and
\* 3.13); Unicode 14 adds four capital letters of Latin Extended-D
LowerChar(c, unicode) ==
    IF \E i \in DOMAIN UpperLetters : UpperLetters[i] = c
    THEN LowerLetters[CHOOSE i \in DOMAIN UpperLetters : UpperLetters[i] = c]
    ELSE IF unicode >= 14 /\ c = "Ꟁ" THEN "ꟁ"
    ELSE IF unicode >= 14 /\ c = "Ꟑ" THEN "ꟑ"
    ELSE IF unicode >= 14 /\ c = "Ꟗ" THEN "ꟗ"
    ELSE IF unicode >= 14 /\ c = "Ꟙ" THEN "ꟙ"
    ELSE c

\* _PyUnicode_IsCaseIgnorable in Unicode 13.0.0
CaseIgnorable13 ==
    {"'", ".", ":", "^", "¨", "­", "¯", "´", "·", "¸", "ʰ", "ʱ", "ʲ", "ʳ",
      "ʴ", "ʵ", "ʶ", "ʷ", "ʸ", "ʹ", "ʺ", "ʻ", "ʼ", "ʽ", "ʾ", "ʿ", "ˀ", "ˁ",
      "˂", "˃", "˄", "˅", "ˆ", "ˇ", "ˈ", "ˉ", "ˊ", "ˋ", "ˌ", "ˍ", "ˎ", "ˏ",
      "ː", "ˑ", "˒", "˓", "˔", "˕", "˖", "˗", "˘", "˙", "˚", "˛", "˜", "˝",
      "˞", "˟", "ˠ", "ˡ", "ˢ", "ˣ", "ˤ", "˥", "˦", "˧", "˨", "˩", "˪", "˫",
      "ˬ", "˭", "ˮ", "˯", "˰", "˱", "˲", "˳", "˴", "˵", "˶", "˷", "˸", "˹",
      "˺", "˻", "˼", "˽", "˾", "˿", "΄", "΅", "·", "҃", "҄", "҅", "҆", "҇",
      "҈", "҉", "֑", "֒", "֓", "֔", "֕", "֖", "֗", "֘", "֙", "֚", "֛", "֜",
      "֝", "֞", "֟", "֠", "֡", "֢", "֣", "֤", "֥", "֦", "֧", "֨", "֩", "֪",
      "֫", "֬", "֭", "֮", "֯", "ְ", "ֱ", "ֲ", "ֳ", "ִ", "ֵ", "ֶ", "ַ", "ָ",
      "ֹ", "ֺ", "ֻ", "ּ", "ֽ", "ֿ", "ׁ", "ׂ", "ׄ", "ׅ", "ׇ", "״", "ۖ", "ۗ",
      "ۘ", "ۙ", "ۚ", "ۛ", "ۜ", "۝", "۟", "۠", "ۡ", "ۢ", "ۣ", "ۤ", "ۥ", "ۦ",
      "ۧ", "ۨ", "۪", "۫", "۬", "ۭ", "ަ", "ާ", "ި", "ީ", "ު", "ޫ", "ެ", "ޭ",
      "ޮ", "ޯ", "ް", "߫", "߬", "߭", "߮", "߯", "߰", "߱", "߲", "߳", "ߴ", "ߵ",
      "ߺ", "߽", "࣓", "ࣔ", "ࣕ", "ࣖ", "ࣗ", "ࣘ", "ࣙ", "ࣚ", "ࣛ", "ࣜ", "ࣝ", "ࣞ",
      "ࣟ", "࣠", "࣡", "࣢", "ࣣ", "ࣤ", "ࣥ", "ࣦ", "ࣧ", "ࣨ", "ࣩ", "࣪", "࣫", "࣬",
      "࣭", "࣮", "࣯", "ࣰ", "ࣱ", "ࣲ", "ࣳ", "ࣴ", "ࣵ", "ࣶ", "ࣷ", "ࣸ", "ࣹ", "ࣺ",
      "ࣻ", "ࣼ", "ࣽ", "ࣾ", "ࣿ", "ঁ", "়", "ু", "ূ", "ৃ", "ৄ", "্", "ৢ", "ৣ",
      "৾", "ઁ", "ં", "઼", "ુ", "ૂ", "ૃ", "ૄ", "ૅ", "ે", "ૈ", "્", "ૢ", "ૣ",
      "ૺ", "ૻ", "ૼ", "૽", "૾", "૿", "ஂ", "ீ", "்", "ಁ", "಼", "ಿ", "ೆ", "ೌ",
      "್", "ೢ", "ೣ", "ඁ", "්", "ි", "ී", "ු", "ූ", "ັ", "ິ", "ີ", "ຶ", "ື",
      "ຸ", "ູ", "຺", "ົ", "ຼ", "ໆ", "່", "້", "໊", "໋", "໌", "ໍ", "ྀ", "ཱྀ",
      "ྂ", "ྃ", "྄", "྆", "྇", "ྍ", "ྎ", "ྏ", "ྐ", "ྑ", "ྒ", "ྒྷ", "ྔ", "ྕ",
      "ྖ", "ྗ", "ྙ", "ྚ", "ྛ", "ྜ", "ྜྷ", "ྞ", "ྟ", "ྠ", "ྡ", "ྡྷ", "ྣ", "ྤ",
      "ྥ", "ྦ", "ྦྷ", "ྨ", "ྩ", "ྪ", "ྫ", "ྫྷ", "ྭ", "ྮ", "ྯ", "ྰ", "ྱ", "ྲ",
      "ླ", "ྴ", "ྵ", "ྶ", "ྷ", "ྸ", "ྐྵ", "ྺ", "ྻ", "ྼ", "࿆", "ႂ", "ႅ", "ႆ",
      "ႍ", "ႝ", "ჼ", "឴", "឵", "ិ", "ី", "ឹ", "ឺ", "ុ", "ូ", "ួ", "ំ", "៉",
      "៊", "់", "៌", "៍", "៎", "៏", "័", "៑", "្", "៓", "ៗ", "៝", "ᢅ", "ᢆ",
      "ᢩ", "ᪧ", "᪰", "᪱", "᪲", "᪳", "᪴", "᪵", "᪶", "᪷", "᪸", "᪹", "᪺", "᪻",
      "᪼", "᪽", "᪾", "ᪿ", "ᫀ", "ᮀ", "ᮁ", "ᮢ", "ᮣ", "ᮤ", "ᮥ", "ᮨ", "ᮩ", "᮫",
      "ᮬ", "ᮭ", "᯦", "ᯨ", "ᯩ", "ᯭ", "ᯯ", "ᯰ", "ᯱ", "᳐", "᳑", "᳒", "᳔", "᳕",
      "᳖", "᳗", "᳘", "᳙", "᳚", "᳛", "᳜", "᳝", "᳞", "᳟", "᳠", "᳢", "᳣", "᳤",
      "᳥", "᳦", "᳧", "᳨", "᳭", "᳴", "᳸", "᳹", "ᶛ", "ᶜ", "ᶝ", "ᶞ", "ᶟ", "ᶠ",
      "ᶡ", "ᶢ", "ᶣ", "ᶤ", "ᶥ", "ᶦ", "ᶧ", "ᶨ", "ᶩ", "ᶪ", "ᶫ", "ᶬ", "ᶭ", "ᶮ",
      "ᶯ", "ᶰ", "ᶱ", "ᶲ", "ᶳ", "ᶴ", "ᶵ", "ᶶ", "ᶷ", "ᶸ", "ᶹ", "ᶺ", "ᶻ", "ᶼ",
      "ᶽ", "ᶾ", "ᶿ", "᷀", "᷁", "᷂", "᷃", "᷄", "᷅", "᷆", "᷇", "᷈", "᷉", "᷊",
      "᷋", "᷌", "᷍", "᷎", "᷏", "᷐", "᷑", "᷒", "ᷓ", "ᷔ", "ᷕ", "ᷖ", "ᷗ", "ᷘ",
      "ᷙ", "ᷚ", "ᷛ", "ᷜ", "ᷝ", "ᷞ", "ᷟ", "ᷠ", "ᷡ", "ᷢ", "ᷣ", "ᷤ", "ᷥ", "ᷦ",
      "ᷧ", "ᷨ", "ᷩ", "ᷪ", "ᷫ", "ᷬ", "ᷭ", "ᷮ", "ᷯ", "ᷰ", "ᷱ", "ᷲ", "ᷳ", "ᷴ",
      "᷵", "᷶", "᷷", "᷸", "᷹", "᷻", "᷼", "᷽", "᷾", "᷿", "᾽", "᾿", "῀", "῁",
      "῍", "῎", "῏", "῝", "῞", "῟", "῭", "΅", "`", "´", "῾", "ₐ", "ₑ", "ₒ",
      "ₓ", "ₔ", "ₕ", "ₖ", "ₗ", "ₘ", "ₙ", "ₚ", "ₛ", "ₜ", "⃐", "⃑", "⃒", "⃓",
      "⃔", "⃕", "⃖", "⃗", "⃘", "⃙", "⃚", "⃛", "⃜", "⃝", "⃞", "⃟", "⃠", "⃡",
      "⃢", "⃣", "⃤", "⃥", "⃦", "⃧", "⃨", "⃩", "⃪", "⃫", "⃬", "⃭", "⃮", "⃯",
      "⃰", "⳯", "⳰", "⳱", "ⷠ", "ⷡ", "ⷢ", "ⷣ", "ⷤ", "ⷥ", "ⷦ", "ⷧ", "ⷨ", "ⷩ",
      "ⷪ", "ⷫ", "ⷬ", "ⷭ", "ⷮ", "ⷯ", "ⷰ", "ⷱ", "ⷲ", "ⷳ", "ⷴ", "ⷵ", "ⷶ", "ⷷ",
      "ⷸ", "ⷹ", "ⷺ", "ⷻ", "ⷼ", "ⷽ", "ⷾ", "ⷿ", "゙", "゚", "゛", "゜", "ゝ", "ゞ",
      "ー", "ヽ", "ヾ", "ꓸ", "ꓹ", "ꓺ", "ꓻ", "ꓼ", "ꓽ", "ꚜ", "ꚝ", "ꚞ", "ꚟ", "꛰",
      "꛱", "ꞈ", "꞉", "꞊", "ꟸ", "ꟹ", "꣄", "ꣅ", "꣠", "꣡", "꣢", "꣣", "꣤", "꣥",
      "꣦", "꣧", "꣨", "꣩", "꣪", "꣫", "꣬", "꣭", "꣮", "꣯", "꣰", "꣱", "ꣿ", "ꦀ",
      "ꦁ", "ꦂ", "꦳", "ꦶ", "ꦷ", "ꦸ", "ꦹ", "ꦼ", "ꦽ", "ꧏ", "ꧥ", "ꧦ", "ꪰ", "ꪲ",
      "ꪳ", "ꪴ", "ꪷ", "ꪸ", "ꪾ", "꪿", "꫁", "ꫝ", "ꫬ", "ꫭ", "ꫳ", "ꫴ", "꫶", "ꯥ",
      "ꯨ", "꯭", "﮲", "﮳", "﮴", "﮵", "﮶", "﮷", "﮸", "﮹", "﮺", "﮻", "﮼", "﮽",
      "﮾", "﮿", "﯀", "﯁", "﻿", "ﾞ", "ﾟ", "￣", "￹", "￺", "￻"}

\* _PyUnicode_IsCaseIgnorable: Unicode 14 and Unicode 15 add the marks and
\* modifier letters they introduce
CaseIgnorable(unicode) ==
    CaseIgnorable13
    \cup (IF unicode >= 14
          THEN
              {"࢈", "࢐", "࢑", "࢘", "࢙", "࢚", "࢛", "࢜", "࢝", "࢞", "࢟", "ࣉ",
               "࣊", "࣋", "࣌", "࣍", "࣎", "࣏", "࣐", "࣑", "࣒", "᫁", "᫂", "᫃",
               "᫄", "᫅", "᫆", "᫇", "᫈", "᫉", "᫊", "᫋", "ᫌ", "ᫍ", "ᫎ", "᷺",
               "ꟲ", "ꟳ", "ꟴ", "﯂"}
          ELSE {})
    \cup (IF unicode >= 15 THEN {"໎"} ELSE {})

\* _PyUnicode_IsCased in Unicode 13.0.0
Cased13 ==
    {"A", "B", "C", "D", "E", "F", "G", "H", "I", "J", "K", "L", "M", "N",
      "O", "P", "Q", "R", "S", "T", "U", "V", "W", "X", "Y", "Z", "a", "b",
      "c", "d", "e", "f", "g", "h", "i", "j", "k", "l", "m", "n", "o", "p",
      "q", "r", "s", "t", "u", "v", "w", "x", "y", "z", "ª", "µ", "º", "À",
      "Á", "Â", "Ã", "Ä", "Å", "Æ", "Ç", "È", "É", "Ê", "Ë", "Ì", "Í", "Î",
      "Ï", "Ð", "Ñ", "Ò", "Ó", "Ô", "Õ", "Ö", "Ø", "Ù", "Ú", "Û", "Ü", "Ý",
      "Þ", "ß", "à", "á", "â", "ã", "ä", "å", "æ", "ç", "è", "é", "ê", "ë",
      "ì", "í", "î", "ï", "ð", "ñ", "ò", "ó", "ô", "õ", "ö", "ø", "ù", "ú",
      "û", "ü", "ý", "þ", "ÿ", "ƀ", "Ɓ", "Ƃ", "ƃ", "Ƅ", "ƅ", "Ɔ", "Ƈ", "ƈ",
      "Ɖ", "Ɗ", "Ƌ", "ƌ", "ƍ", "Ǝ", "Ə", "Ɛ", "Ƒ", "ƒ", "Ɠ", "Ɣ", "ƕ", "Ɩ",
      "Ɨ", "Ƙ", "ƙ", "ƚ", "ƛ", "Ɯ", "Ɲ", "ƞ", "Ɵ", "Ơ", "ơ", "Ƣ", "ƣ", "Ƥ",
      "ƥ", "Ʀ", "Ƨ", "ƨ", "Ʃ", "ƪ", "ƫ", "Ƭ", "ƭ", "Ʈ", "Ư", "ư", "Ʊ", "Ʋ",
      "Ƴ", "ƴ", "Ƶ", "ƶ", "Ʒ", "Ƹ", "ƹ", "ƺ", "Ƽ", "ƽ", "ƾ", "ƿ", "Ǆ", "ǅ",
      "ǆ", "Ǉ", "ǈ", "ǉ", "Ǌ", "ǋ", "ǌ", "Ǎ", "ǎ", "Ǐ", "ǐ", "Ǒ", "ǒ", "Ǔ",
      "ǔ", "Ǖ", "ǖ", "Ǘ", "ǘ", "Ǚ", "ǚ", "Ǜ", "ǜ", "ǝ", "Ǟ", "ǟ", "Ǡ", "ǡ",
      "Ǣ", "ǣ", "Ǥ", "ǥ", "Ǧ", "ǧ", "Ǩ", "ǩ", "Ǫ", "ǫ", "Ǭ", "ǭ", "Ǯ", "ǯ",
      "ǰ", "Ǳ", "ǲ", "ǳ", "Ǵ", "ǵ", "Ƕ", "Ƿ", "Ǹ", "ǹ", "Ǻ", "ǻ", "Ǽ", "ǽ",
      "Ǿ", "ǿ", "ʀ", "ʁ", "ʂ", "ʃ", "ʄ", "ʅ", "ʆ", "ʇ", "ʈ", "ʉ", "ʊ", "ʋ",
      "ʌ", "ʍ", "ʎ", "ʏ", "ʐ", "ʑ", "ʒ", "ʓ", "ʕ", "ʖ", "ʗ", "ʘ", "ʙ", "ʚ",
      "ʛ", "ʜ", "ʝ", "ʞ", "ʟ", "ʠ", "ʡ", "ʢ", "ʣ", "ʤ", "ʥ", "ʦ", "ʧ", "ʨ",
      "ʩ", "ʪ", "ʫ", "ʬ", "ʭ", "ʮ", "ʯ", "ʰ", "ʱ", "ʲ", "ʳ", "ʴ", "ʵ", "ʶ",
      "ʷ", "ʸ", "ˀ", "ˁ", "ˠ", "ˡ", "ˢ", "ˣ", "ˤ", "Ά", "Έ", "Ή", "Ί", "Ό",
      "Ύ", "Ώ", "ΐ", "Α", "Β", "Γ", "Δ", "Ε", "Ζ", "Η", "Θ", "Ι", "Κ", "Λ",
      "Μ", "Ν", "Ξ", "Ο", "Π", "Ρ", "Σ", "Τ", "Υ", "Φ", "Χ", "Ψ", "Ω", "Ϊ",
      "Ϋ", "ά", "έ", "ή", "ί", "ΰ", "α", "β", "γ", "δ", "ε", "ζ", "η", "θ",
      "ι", "κ", "λ", "μ", "ν", "ξ", "ο", "π", "ρ", "ς", "σ", "τ", "υ", "φ",
      "χ", "ψ", "ω", "ϊ", "ϋ", "ό", "ύ", "ώ", "Ϗ", "ϐ", "ϑ", "ϒ", "ϓ", "ϔ",
      "ϕ", "ϖ", "ϗ", "Ϙ", "ϙ", "Ϛ", "ϛ", "Ϝ", "ϝ", "Ϟ", "ϟ", "Ϡ", "ϡ", "Ϣ",
      "ϣ", "Ϥ", "ϥ", "Ϧ", "ϧ", "Ϩ", "ϩ", "Ϫ", "ϫ", "Ϭ", "ϭ", "Ϯ", "ϯ", "ϰ",
      "ϱ", "ϲ", "ϳ", "ϴ", "ϵ", "Ϸ", "ϸ", "Ϲ", "Ϻ", "ϻ", "ϼ", "Ͻ", "Ͼ", "Ͽ",
      "Ҁ", "ҁ", "Ҋ", "ҋ", "Ҍ", "ҍ", "Ҏ", "ҏ", "Ґ", "ґ", "Ғ", "ғ", "Ҕ", "ҕ",
      "Җ", "җ", "Ҙ", "ҙ", "Қ", "қ", "Ҝ", "ҝ", "Ҟ", "ҟ", "Ҡ", "ҡ", "Ң", "ң",
      "Ҥ", "ҥ", "Ҧ", "ҧ", "Ҩ", "ҩ", "Ҫ", "ҫ", "Ҭ", "ҭ", "Ү", "ү", "Ұ", "ұ",
      "Ҳ", "ҳ", "Ҵ", "ҵ", "Ҷ", "ҷ", "Ҹ", "ҹ", "Һ", "һ", "Ҽ", "ҽ", "Ҿ", "ҿ",
      "Ӏ", "Ӂ", "ӂ", "Ӄ", "ӄ", "Ӆ", "ӆ", "Ӈ", "ӈ", "Ӊ", "ӊ", "Ӌ", "ӌ", "Ӎ",
      "ӎ", "ӏ", "Ӑ", "ӑ", "Ӓ", "ӓ", "Ӕ", "ӕ", "Ӗ", "ӗ", "Ә", "ә", "Ӛ", "ӛ",
      "Ӝ", "ӝ", "Ӟ", "ӟ", "Ӡ", "ӡ", "Ӣ", "ӣ", "Ӥ", "ӥ", "Ӧ", "ӧ", "Ө", "ө",
      "Ӫ", "ӫ", "Ӭ", "ӭ", "Ӯ", "ӯ", "Ӱ", "ӱ", "Ӳ", "ӳ", "Ӵ", "ӵ", "Ӷ", "ӷ",
      "Ӹ", "ӹ", "Ӻ", "ӻ", "Ӽ", "ӽ", "Ӿ", "ӿ", "ր", "ց", "ւ", "փ", "ք", "օ",
      "ֆ", "և", "ֈ", "Ⴀ", "Ⴁ", "Ⴂ", "Ⴃ", "Ⴄ", "Ⴅ", "Ⴆ", "Ⴇ", "Ⴈ", "Ⴉ", "Ⴊ",
      "Ⴋ", "Ⴌ", "Ⴍ", "Ⴎ", "Ⴏ", "Ⴐ", "Ⴑ", "Ⴒ", "Ⴓ", "Ⴔ", "Ⴕ", "Ⴖ", "Ⴗ", "Ⴘ",
      "Ⴙ", "Ⴚ", "Ⴛ", "Ⴜ", "Ⴝ", "Ⴞ", "Ⴟ", "Ⴠ", "Ⴡ", "Ⴢ", "Ⴣ", "Ⴤ", "Ⴥ", "Ⴧ",
      "Ⴭ", "ა", "ბ", "გ", "დ", "ე", "ვ", "ზ", "თ", "ი", "კ", "ლ", "მ", "ნ",
      "ო", "პ", "ჟ", "რ", "ს", "ტ", "უ", "ფ", "ქ", "ღ", "ყ", "შ", "ჩ", "ც",
      "ძ", "წ", "ჭ", "ხ", "ჯ", "ჰ", "ჱ", "ჲ", "ჳ", "ჴ", "ჵ", "ჶ", "ჷ", "ჸ",
      "ჹ", "ჺ", "ჽ", "ჾ", "ჿ", "Ꭰ", "Ꭱ", "Ꭲ", "Ꭳ", "Ꭴ", "Ꭵ", "Ꭶ", "Ꭷ", "Ꭸ",
      "Ꭹ", "Ꭺ", "Ꭻ", "Ꭼ", "Ꭽ", "Ꭾ", "Ꭿ", "Ꮀ", "Ꮁ", "Ꮂ", "Ꮃ", "Ꮄ", "Ꮅ", "Ꮆ",
      "Ꮇ", "Ꮈ", "Ꮉ", "Ꮊ", "Ꮋ", "Ꮌ", "Ꮍ", "Ꮎ", "Ꮏ", "Ꮐ", "Ꮑ", "Ꮒ", "Ꮓ", "Ꮔ",
      "Ꮕ", "Ꮖ", "Ꮗ", "Ꮘ", "Ꮙ", "Ꮚ", "Ꮛ", "Ꮜ", "Ꮝ", "Ꮞ", "Ꮟ", "Ꮠ", "Ꮡ", "Ꮢ",
      "Ꮣ", "Ꮤ", "Ꮥ", "Ꮦ", "Ꮧ", "Ꮨ", "Ꮩ", "Ꮪ", "Ꮫ", "Ꮬ", "Ꮭ", "Ꮮ", "Ꮯ", "Ꮰ",
      "Ꮱ", "Ꮲ", "Ꮳ", "Ꮴ", "Ꮵ", "Ꮶ", "Ꮷ", "Ꮸ", "Ꮹ", "Ꮺ", "Ꮻ", "Ꮼ", "Ꮽ", "Ꮾ",
      "Ꮿ", "Ᏸ", "Ᏹ", "Ᏺ", "Ᏻ", "Ᏼ", "Ᏽ", "ᏸ", "ᏹ", "ᏺ", "ᏻ", "ᏼ", "ᏽ", "ᲀ",
      "ᲁ", "ᲂ", "ᲃ", "ᲄ", "ᲅ", "ᲆ", "ᲇ", "ᲈ", "Ა", "Ბ", "Გ", "Დ", "Ე", "Ვ",
      "Ზ", "Თ", "Ი", "Კ", "Ლ", "Მ", "Ნ", "Ო", "Პ", "Ჟ", "Რ", "Ს", "Ტ", "Უ",
      "Ფ", "Ქ", "Ღ", "Ყ", "Შ", "Ჩ", "Ც", "Ძ", "Წ", "Ჭ", "Ხ", "Ჯ", "Ჰ", "Ჱ",
      "Ჲ", "Ჳ", "Ჴ", "Ჵ", "Ჶ", "Ჷ", "Ჸ", "Ჹ", "Ჺ", "Ჽ", "Ჾ", "Ჿ", "ᶀ", "ᶁ",
      "ᶂ", "ᶃ", "ᶄ", "ᶅ", "ᶆ", "ᶇ", "ᶈ", "ᶉ", "ᶊ", "ᶋ", "ᶌ", "ᶍ", "ᶎ", "ᶏ",
      "ᶐ", "ᶑ", "ᶒ", "ᶓ", "ᶔ", "ᶕ", "ᶖ", "ᶗ", "ᶘ", "ᶙ", "ᶚ", "ᶛ", "ᶜ", "ᶝ",
      "ᶞ", "ᶟ", "ᶠ", "ᶡ", "ᶢ", "ᶣ", "ᶤ", "ᶥ", "ᶦ", "ᶧ", "ᶨ", "ᶩ", "ᶪ", "ᶫ",
      "ᶬ", "ᶭ", "ᶮ", "ᶯ", "ᶰ", "ᶱ", "ᶲ", "ᶳ", "ᶴ", "ᶵ", "ᶶ", "ᶷ", "ᶸ", "ᶹ",
      "ᶺ", "ᶻ", "ᶼ", "ᶽ", "ᶾ", "ᶿ", "Ẁ", "ẁ", "Ẃ", "ẃ", "Ẅ", "ẅ", "Ẇ", "ẇ",
      "Ẉ", "ẉ", "Ẋ", "ẋ", "Ẍ", "ẍ", "Ẏ", "ẏ", "Ẑ", "ẑ", "Ẓ", "ẓ", "Ẕ", "ẕ",
      "ẖ", "ẗ", "ẘ", "ẙ", "ẚ", "ẛ", "ẜ", "ẝ", "ẞ", "ẟ", "Ạ", "ạ", "Ả", "ả",
      "Ấ", "ấ", "Ầ", "ầ", "Ẩ", "ẩ", "Ẫ", "ẫ", "Ậ", "ậ", "Ắ", "ắ", "Ằ", "ằ",
      "Ẳ", "ẳ", "Ẵ", "ẵ", "Ặ", "ặ", "Ẹ", "ẹ", "Ẻ", "ẻ", "Ẽ", "ẽ", "Ế", "ế",
      "Ề", "ề", "Ể", "ể", "Ễ", "ễ", "Ệ", "ệ", "Ỉ", "ỉ", "Ị", "ị", "Ọ", "ọ",
      "Ỏ", "ỏ", "Ố", "ố", "Ồ", "ồ", "Ổ", "ổ", "Ỗ", "ỗ", "Ộ", "ộ", "Ớ", "ớ",
      "Ờ", "ờ", "Ở", "ở", "Ỡ", "ỡ", "Ợ", "ợ", "Ụ", "ụ", "Ủ", "ủ", "Ứ", "ứ",
      "Ừ", "ừ", "Ử", "ử", "Ữ", "ữ", "Ự", "ự", "Ỳ", "ỳ", "Ỵ", "ỵ", "Ỷ", "ỷ",
      "Ỹ", "ỹ", "Ỻ", "ỻ", "Ỽ", "ỽ", "Ỿ", "ỿ", "ᾀ", "ᾁ", "ᾂ", "ᾃ", "ᾄ", "ᾅ",
      "ᾆ", "ᾇ", "ᾈ", "ᾉ", "ᾊ", "ᾋ", "ᾌ", "ᾍ", "ᾎ", "ᾏ", "ᾐ", "ᾑ", "ᾒ", "ᾓ",
      "ᾔ", "ᾕ", "ᾖ", "ᾗ", "ᾘ", "ᾙ", "ᾚ", "ᾛ", "ᾜ", "ᾝ", "ᾞ", "ᾟ", "ᾠ", "ᾡ",
      "ᾢ", "ᾣ", "ᾤ", "ᾥ", "ᾦ", "ᾧ", "ᾨ", "ᾩ", "ᾪ", "ᾫ", "ᾬ", "ᾭ", "ᾮ", "ᾯ",
      "ᾰ", "ᾱ", "ᾲ", "ᾳ", "ᾴ", "ᾶ", "ᾷ", "Ᾰ", "Ᾱ", "Ὰ", "Ά", "ᾼ", "ι", "ῂ",
      "ῃ", "ῄ", "ῆ", "ῇ", "Ὲ", "Έ", "Ὴ", "Ή", "ῌ", "ῐ", "ῑ", "ῒ", "ΐ", "ῖ",
      "ῗ", "Ῐ", "Ῑ", "Ὶ", "Ί", "ῠ", "ῡ", "ῢ", "ΰ", "ῤ", "ῥ", "ῦ", "ῧ", "Ῠ",
      "Ῡ", "Ὺ", "Ύ", "Ῥ", "ῲ", "ῳ", "ῴ", "ῶ", "ῷ", "Ὸ", "Ό", "Ὼ", "Ώ", "ῼ",
      "ₐ", "ₑ", "ₒ", "ₓ", "ₔ", "ₕ", "ₖ", "ₗ", "ₘ", "ₙ", "ₚ", "ₛ", "ₜ", "Ↄ",
      "ↄ", "Ⓐ", "Ⓑ", "Ⓒ", "Ⓓ", "Ⓔ", "Ⓕ", "Ⓖ", "Ⓗ", "Ⓘ", "Ⓙ", "Ⓚ", "Ⓛ", "Ⓜ",
      "Ⓝ", "Ⓞ", "Ⓟ", "Ⓠ", "Ⓡ", "Ⓢ", "Ⓣ", "Ⓤ", "Ⓥ", "Ⓦ", "Ⓧ", "Ⓨ", "Ⓩ", "ⓐ",
      "ⓑ", "ⓒ", "ⓓ", "ⓔ", "ⓕ", "ⓖ", "ⓗ", "ⓘ", "ⓙ", "ⓚ", "ⓛ", "ⓜ", "ⓝ", "ⓞ",
      "ⓟ", "ⓠ", "ⓡ", "ⓢ", "ⓣ", "ⓤ", "ⓥ", "ⓦ", "ⓧ", "ⓨ", "ⓩ", "Ⲁ", "ⲁ", "Ⲃ",
      "ⲃ", "Ⲅ", "ⲅ", "Ⲇ", "ⲇ", "Ⲉ", "ⲉ", "Ⲋ", "ⲋ", "Ⲍ", "ⲍ", "Ⲏ", "ⲏ", "Ⲑ",
      "ⲑ", "Ⲓ", "ⲓ", "Ⲕ", "ⲕ", "Ⲗ", "ⲗ", "Ⲙ", "ⲙ", "Ⲛ", "ⲛ", "Ⲝ", "ⲝ", "Ⲟ",
      "ⲟ", "Ⲡ", "ⲡ", "Ⲣ", "ⲣ", "Ⲥ", "ⲥ", "Ⲧ", "ⲧ", "Ⲩ", "ⲩ", "Ⲫ", "ⲫ", "Ⲭ",
      "ⲭ", "Ⲯ", "ⲯ", "Ⲱ", "ⲱ", "Ⲳ", "ⲳ", "Ⲵ", "ⲵ", "Ⲷ", "ⲷ", "Ⲹ", "ⲹ", "Ⲻ",
      "ⲻ", "Ⲽ", "ⲽ", "Ⲿ", "ⲿ", "Ⳁ", "ⳁ", "Ⳃ", "ⳃ", "Ⳅ", "ⳅ", "Ⳇ", "ⳇ", "Ⳉ",
      "ⳉ", "Ⳋ", "ⳋ", "Ⳍ", "ⳍ", "Ⳏ", "ⳏ", "Ⳑ", "ⳑ", "Ⳓ", "ⳓ", "Ⳕ", "ⳕ", "Ⳗ",
      "ⳗ", "Ⳙ", "ⳙ", "Ⳛ", "ⳛ", "Ⳝ", "ⳝ", "Ⳟ", "ⳟ", "Ⳡ", "ⳡ", "Ⳣ", "ⳣ", "ⳤ",
      "Ⳬ", "ⳬ", "Ⳮ", "ⳮ", "Ⳳ", "ⳳ", "Ꚁ", "ꚁ", "Ꚃ", "ꚃ", "Ꚅ", "ꚅ", "Ꚇ", "ꚇ",
      "Ꚉ", "ꚉ", "Ꚋ", "ꚋ", "Ꚍ", "ꚍ", "Ꚏ", "ꚏ", "Ꚑ", "ꚑ", "Ꚓ", "ꚓ", "Ꚕ", "ꚕ",
      "Ꚗ", "ꚗ", "Ꚙ", "ꚙ", "Ꚛ", "ꚛ", "ꚜ", "ꚝ", "Ꞁ", "ꞁ", "Ꞃ", "ꞃ", "Ꞅ", "ꞅ",
      "Ꞇ", "ꞇ", "Ꞌ", "ꞌ", "Ɥ", "ꞎ", "Ꞑ", "ꞑ", "Ꞓ", "ꞓ", "ꞔ", "ꞕ", "Ꞗ", "ꞗ",
      "Ꞙ", "ꞙ", "Ꞛ", "ꞛ", "Ꞝ", "ꞝ", "Ꞟ", "ꞟ", "Ꞡ", "ꞡ", "Ꞣ", "ꞣ", "Ꞥ", "ꞥ",
      "Ꞧ", "ꞧ", "Ꞩ", "ꞩ", "Ɦ", "Ɜ", "Ɡ", "Ɬ", "Ɪ", "ꞯ", "Ʞ", "Ʇ", "Ʝ", "Ꭓ",
      "Ꞵ", "ꞵ", "Ꞷ", "ꞷ", "Ꞹ", "ꞹ", "Ꞻ", "ꞻ", "Ꞽ", "ꞽ", "Ꞿ", "ꞿ", "Ꟃ", "ꟃ",
      "Ꞔ", "Ʂ", "Ᶎ", "Ꟈ", "ꟈ", "Ꟊ", "ꟊ", "Ꟶ", "ꟶ", "ꟸ", "ꟹ", "ꟺ", "ꮀ", "ꮁ",
      "ꮂ", "ꮃ", "ꮄ", "ꮅ", "ꮆ", "ꮇ", "ꮈ", "ꮉ", "ꮊ", "ꮋ", "ꮌ", "ꮍ", "ꮎ", "ꮏ",
      "ꮐ", "ꮑ", "ꮒ", "ꮓ", "ꮔ", "ꮕ", "ꮖ", "ꮗ", "ꮘ", "ꮙ", "ꮚ", "ꮛ", "ꮜ", "ꮝ",
      "ꮞ", "ꮟ", "ꮠ", "ꮡ", "ꮢ", "ꮣ", "ꮤ", "ꮥ", "ꮦ", "ꮧ", "ꮨ", "ꮩ", "ꮪ", "ꮫ",
      "ꮬ", "ꮭ", "ꮮ", "ꮯ", "ꮰ", "ꮱ", "ꮲ", "ꮳ", "ꮴ", "ꮵ", "ꮶ", "ꮷ", "ꮸ", "ꮹ",
      "ꮺ", "ꮻ", "ꮼ", "ꮽ", "ꮾ", "ꮿ"}

\* _PyUnicode_IsCased: Unicode 14 adds the letters it introduces, Unicode 15
\* four modifier letters that it makes lower case
Cased(unicode) ==
    Cased13
    \cup (IF unicode >= 14
          THEN {"Ꟁ", "ꟁ", "Ꟑ", "ꟑ", "ꟓ", "ꟕ", "Ꟗ", "ꟗ", "Ꟙ", "ꟙ"}
          ELSE {})
    \cup (IF unicode >= 15 THEN {"ჼ", "ꟲ", "ꟳ", "ꟴ"} ELSE {})

\* handle_capital_sigma: a capital sigma is final when the nearest character
\* before it that is not case-ignorable is cased, and the nearest one after
\* it that is not case-ignorable, if there is one, is not cased
FinalSigma(s, i, unicode) ==
    LET before == {j \in 1..(i - 1) : s[j] \notin CaseIgnorable(unicode)}
        after == {j \in (i + 1)..Len(s) : s[j] \notin CaseIgnorable(unicode)}
    IN  /\ before # {}
        /\ s[CHOOSE j \in before : \A h \in before : h <= j] \in Cased(unicode)
        /\ \/ after = {}
           \/ s[CHOOSE j \in after : \A h \in after : j <= h] \notin Cased(unicode)

\* str.lower()
Lower(s, unicode) ==
    [i \in DOMAIN s |->
        IF s[i] = "Σ"
        THEN (IF FinalSigma(s, i, unicode) THEN "ς" ELSE "σ")
        ELSE LowerChar(s[i], unicode)]

\* one of the .strip() calls of the loop body raises AttributeError on None
RowRaises(row) ==
    \/ row.query = NoneVal
    \/ row.doc_id = NoneVal
    \/ row.doc_url = NoneVal
    \/ row.relevant = NoneVal

\* the loop body for a row that does not raise
LoadRow(st, row, unicode) ==
    LET query == Strip(row.query)
        doc_id == Strip(row.doc_id)
        doc_url == Strip(row.doc_url)
        relevant == Lower(Strip(row.relevant), unicode)
        identifier == IF doc_id # << >> THEN doc_id ELSE doc_url
        old == IF query \in DOMAIN st.labels THEN st.labels[query] ELSE {}
    IN  [labels |-> IF relevant = <<"y", "e", "s">>
                    THEN [q \in (DOMAIN st.labels) \cup {query} |->
                             IF q = query THEN old \cup {identifier} ELSE st.labels[q]]
                    ELSE st.labels,
         keys |-> IF relevant = <<"y", "e", "s">> /\ query \notin DOMAIN st.labels
                  THEN Append(st.keys, query)
                  ELSE st.keys,
         all_labels |-> Append(st.all_labels, row)]

\* for row in reader: ... inside one try block: the first row that raises ends the loop
RECURSIVE LoadRows(_, _, _)
LoadRows(st, rows, unicode) ==
    IF rows = << >> THEN st
    ELSE IF RowRaises(Head(rows)) THEN st
    ELSE LoadRows(LoadRow(st, Head(rows), unicode), Tail(rows), unicode)

\* keys: the insertion order of the keys of the defaultdict self.labels
_load_labels(rows, unicode) ==
    LoadRows([labels |-> << >>, keys |-> << >>, all_labels |-> << >>], rows, unicode)

\* list(self.labels.keys())
get_queries(keys) == keys

(***************************************************************************)
(* Judgment store: state machine                                           *)
(***************************************************************************)
\* fields of the rows of a judgment file: a query ending in a no-break space,
\* a doc_id that is empty, and one that is a vertical tab only, flags wrapped
\* in whitespace and in capitals, and a flag whose last letter is a capital
\* sigma
Queries == {<<"a">>, <<"b", " ">>}
DocIdFields == {<< >>, <<"1">>, <<"">>}
UrlFields == {<<"u">>}
RelevantFields ==
    {<<"y", "e", "s">>, <<" ", "Y", "e", "s", "\n", "">>, <<"n", "o">>,
     <<"Y", "E", "Σ">>}

WellFormedRows ==
    [query : Queries, doc_id : DocIdFields, doc_url : UrlFields, relevant : RelevantFields]
ShortRows ==
    {[query |-> <<"a">>, doc_id |-> NoneVal, doc_url |-> NoneVal, relevant |-> NoneVal],
     [query |-> <<"b", " ">>, doc_id |-> <<"1">>, doc_url |-> <<"u">>, relevant |-> NoneVal]}
FileRows == WellFormedRows \cup ShortRows

LabelFiles ==
    {NoFile} \cup
    {[exists |-> TRUE, rows |-> r] : r \in UNION {[1..n -> FileRows] : n \in 0..MaxRows}}

InitLabels ==
    /\ labelRows \in LabelFiles
    /\ labels = << >>
    /\ labelKeys = << >>
    /\ allLabels = << >>
    /\ loaded = FALSE
    /\ pythonMinor \in PythonMinors
    /\ NoMetricCall
    /\ IdleRetrieval
    /\ IdleMerge
    /\ IdleScorer
    /\ IdleEval
    /\ IdleTools

\* SystemEvaluator.__init__
NewEvaluator ==
    /\ ~loaded
    /\ loaded' = TRUE
    /\ IF labelRows.exists
       THEN /\ labels' = _load_labels(labelRows.rows, UnicodeVersion(pythonMinor)).labels
            /\ labelKeys' = _load_labels(labelRows.rows, UnicodeVersion(pythonMinor)).keys
            /\ allLabels' = _load_labels(labelRows.rows, UnicodeVersion(pythonMinor)).all_labels
       ELSE UNCHANGED <<labels, labelKeys, allLabels>>
    /\ UNCHANGED <<labelRows, retrievalVars, mergeVars, scorerVars, metricVars, evalVars, toolVars>>

NextLabels == NewEvaluator

SpecLabels == InitLabels /\ [][NextLabels]_vars

\* the rows of the file that are well formed, in file order
RECURSIVE WellFormedOnly(_)
WellFormedOnly(rows) ==
    IF rows = << >> THEN << >>
    ELSE (IF RowRaises(Head(rows)) THEN << >> ELSE <<Head(rows)>>)
         \o WellFormedOnly(Tail(rows))

\* C3: a malformed row is skipped on its own: the relevant sets are those of
\* the file without its malformed rows, rows after a malformed one included.
C3_MalformedRowIsolated ==
    (loaded /\ labelRows.exists) =>
        labels = _load_labels(WellFormedOnly(labelRows.rows), UnicodeVersion(pythonMinor)).labels

\* the rows of a file as a set
RowSet(rows) == {rows[i] : i \in DOMAIN rows}

\* C11: for a judgment file whose rows are all well formed, get_queries
\* lists every judged query: every query of at least one row, whatever the
\* row's relevant flag, a query judged only 'no' included.
C11_EveryJudgedQueryListed ==
    (loaded /\ labelRows.exists /\ \A r \in RowSet(labelRows.rows) : ~RowRaises(r)) =>
        {get_queries(labelKeys)[i] : i \in DOMAIN get_queries(labelKeys)}
            = {Strip(r.query) : r \in RowSet(labelRows.rows)}

\* the identifier a judgment row contributes: doc_id when non-empty, else doc_url
RowIdentifier(row) ==
    IF Strip(row.doc_id) # << >> THEN Strip(row.doc_id) ELSE Strip(row.doc_url)

\* the 'yes' rows of a file for one query
YesRows(rows, q) ==
    {r \in RowSet(rows) :
        /\ ~RowRaises(r)
        /\ Strip(r.query) = q
        /\ Lower(Strip(r.relevant), UnicodeVersion(pythonMinor)) = <<"y", "e", "s">>}

\* the relevant set the store holds for a query (none stored: empty)
RelevantSet(q) == IF q \in DOMAIN labels THEN labels[q] ELSE {}

\* C12: after loading, the relevant set of each query is exactly the set of
\* identifiers of the rows of the file for that query whose flag is 'yes',
\* wherever those rows stand in the file.
C12_RelevantSetIsYesRows ==
    (loaded /\ labelRows.exists) =>
        \A q \in {Strip(x) : x \in Queries} :
            RelevantSet(q) = {RowIdentifier(r) : r \in YesRows(labelRows.rows, q)}

(***************************************************************************)
(* SemanticRetriever construction and the embedding cache file             *)
(*   cacheFile: << >> when the file does not exist, <<embeddings>> when it *)
(*   does.                                                                 *)
(***************************************************************************)
\* collections handed to the constructor: distinct documents, in some order
Collections ==
    {c \in UNION {[1..n -> 1..MaxCacheDocs] : n \in 1..MaxCacheDocs} :
        \A i, j \in DOMAIN c : i # j => c[i] # c[j]}

InitCache ==
    /\ documents = << >>
    /\ embeddings = << >>
    /\ cacheFile = << >>
    /\ tiePerm \in Perms(MaxCacheDocs)
    /\ results = << >>
    /\ call = NoCall
    /\ raised = FALSE
    /\ ranked = NoRanked
    /\ IdleMerge
    /\ IdleLabels
    /\ IdleLater
    /\ IdleTools

\* SemanticRetriever.__init__(documents, cache_file=...) on the shared cache file
NewSemanticRetriever ==
    \E docs \in Collections :
        /\ documents' = docs
        /\ IF cacheFile # << >>
           THEN /\ embeddings' = cacheFile[1]
                /\ UNCHANGED cacheFile
           ELSE /\ embeddings' = EncodeDocuments(docs)
                /\ cacheFile' = <<EncodeDocuments(docs)>>
        /\ results' = << >>
        /\ call' = NoCall
        /\ raised' = FALSE
        /\ ranked' = NoRanked
        /\ UNCHANGED <<tiePerm, mergeVars, labelVars, scorerVars, metricVars, evalVars, toolVars>>

NextCache ==
    \/ NewSemanticRetriever
    \/ SearchSemantic

SpecCache == InitCache /\ [][NextCache]_vars

\* C4: every constructed retriever holds exactly one embedding per document of
\* its own collection, positionally aligned; embeddings cached for another
\* collection are never reused.
C4_EmbeddingsMatchCollection ==
    documents # << >> =>
        /\ Len(embeddings) = Len(documents)
        /\ \A i \in DOMAIN documents : embeddings[i] = EncodeDocuments(documents)[i]

(***************************************************************************)
(* ConfidenceScorer                                                        *)
(*   a ranked result is [has_model, model, results]; has_model is FALSE    *)
(*   for a dict without a 'model' key; a result is [score |-> float].      *)
(***************************************************************************)
LOW_CONFIDENCE_THRESHOLD == IntTrueDiv(1, 5)

\* ConfidenceScorer.__init__: threshold if threshold is not None else the default
NewThreshold(arg) == IF arg.none THEN LOW_CONFIDENCE_THRESHOLD ELSE arg.value

\* ranked_results.get('model', 'Unknown')
ModelOf(ranked_results) ==
    IF ranked_results.has_model THEN ranked_results.model ELSE "Unknown"

\* the decimal digits of a natural number
DigitChars == <<"0", "1", "2", "3", "4", "5", "6", "7", "8", "9">>
RECURSIVE DecimalDigits(_)
DecimalDigits(n) ==
    IF n < 10 THEN <<DigitChars[n + 1]>>
    ELSE DecimalDigits(n \div 10) \o <<DigitChars[(n % 10) + 1]>>

\* the bit of weight 2^i of the number whose digits in base 2^13 are d,
\* lowest first, the last digit holding all that is left
DigitBit(d, i) ==
    LET k == Min(i \div 13 + 1, Len(d))
    IN  IF i >= 13 * Len(d) + 13 THEN 0 ELSE (d[k] \div 2^(i - 13 * (k - 1))) % 2

\* the number written by the bits of weight 2^i to 2^top of d
RECURSIVE BitsFrom(_, _, _)
BitsFrom(d, i, top) == IF i > top THEN 0 ELSE DigitBit(d, i) + 2 * BitsFrom(d, i + 1, top)

\* the hundredths printed for the float x, 0 < fabs(x) < 2^20: 100 * fabs(x),
\* worked out exactly, rounded to the nearest whole number, an exact half
\* going to the even neighbour
Hundredths(x) ==
    LET d == F64Carry([k \in 1..4 |-> 100 * F64Digits(x)[k]], 1, 0)
        s == -x.e
        k == BitsFrom(d, s, 60)
        g == DigitBit(d, s - 1) = 1
        sticky == \E i \in 0..Min(s - 2, 60) : DigitBit(d, i) = 1
    IN  IF g /\ (sticky \/ k % 2 = 1) THEN k + 1 ELSE k

\* f"{score:.2f}": the text, as the sequence of its characters
Format2f(score) ==
    LET h == IF score.hi = 0 THEN 0 ELSE Hundredths(score)
    IN  (IF score.neg THEN <<"-">> ELSE << >>)
        \o DecimalDigits(h \div 100)
        \o <<".", DigitChars[((h % 100) \div 10) + 1], DigitChars[(h % 10) + 1]>>

\* texts are one-element sequences, None is NoneVal; the warning text varies
\* only in the formatted score
_generate_warning(score, model) == <<"Warning", Format2f(score)>>

_generate_recommendation(score, model) ==
    CASE model \in {"BM25", "TF-IDF"} ->
            <<"Try using different keywords or check if translation is accurate.">>
      [] model = "Fuzzy" ->
            <<"Check for spelling errors or try different query formulation.">>
      [] model = "Semantic" ->
            <<"Try rephrasing the query or using more specific terms.">>
      [] OTHER -> <<"Try rephrasing your query with different words.">>

\* variant: an empty result is judged by its top score of 0 like any other
evaluate_confidence_empty_by_score(ranked_results, thr) ==
    LET top_score == IF ranked_results.results = << >> THEN F64Zero
                     ELSE ranked_results.results[1].score
        model == ModelOf(ranked_results)
    IN  IF F64Lt(top_score, thr)
        THEN [is_low_confidence |-> TRUE, top_score |-> top_score,
              warning_message |-> _generate_warning(top_score, model),
              recommendation |-> _generate_recommendation(top_score, model),
              threshold |-> thr]
        ELSE [is_low_confidence |-> FALSE, top_score |-> top_score,
              warning_message |-> NoneVal, recommendation |-> NoneVal,
              threshold |-> thr]

\* variant: a top score equal to the threshold is flagged too
evaluate_confidence_inclusive(ranked_results, thr) ==
    IF ranked_results.results = << >>
    THEN [is_low_confidence |-> TRUE, top_score |-> F64Zero,
          warning_message |-> _generate_warning(F64Zero, ModelOf(ranked_results)),
          recommendation |-> <<"No results found. Try rephrasing your query.">>,
          threshold |-> thr]
    ELSE LET top_score == ranked_results.results[1].score
             model == ModelOf(ranked_results)
         IN  IF F64Leq(top_score, thr)
             THEN [is_low_confidence |-> TRUE, top_score |-> top_score,
                   warning_message |-> _generate_warning(top_score, model),
                   recommendation |-> _generate_recommendation(top_score, model),
                   threshold |-> thr]
             ELSE [is_low_confidence |-> FALSE, top_score |-> top_score,
                   warning_message |-> NoneVal, recommendation |-> NoneVal,
                   threshold |-> thr]

evaluate_confidence(ranked_results, thr) ==
    IF ranked_results.results = << >>
    THEN [is_low_confidence |-> TRUE, top_score |-> F64Zero,
          warning_message |-> _generate_warning(F64Zero, ModelOf(ranked_results)),
          recommendation |-> <<"No results found. Try rephrasing your query.">>,
          threshold |-> thr]
    ELSE LET top_score == ranked_results.results[1].score
             model == ModelOf(ranked_results)
         IN  IF F64Lt(top_score, thr)
             THEN [is_low_confidence |-> TRUE, top_score |-> top_score,
                   warning_message |-> _generate_warning(top_score, model),
                   recommendation |-> _generate_recommendation(top_score, model),
                   threshold |-> thr]
             ELSE [is_low_confidence |-> FALSE, top_score |-> top_score,
                   warning_message |-> NoneVal, recommendation |-> NoneVal,
                   threshold |-> thr]

\* best_model before any model beat the initial best_score
NoModel == "None"

\* the loop of evaluate_all_models over all_results.items(), from item i on
RECURSIVE BestFrom(_, _, _, _)
BestFrom(all_results, thr, i, best) ==
    IF i > Len(all_results) THEN best
    ELSE LET evaluation == evaluate_confidence(all_results[i].ranked, thr)
         IN  BestFrom(all_results, thr, i + 1,
                      IF F64Lt(best.best_score, evaluation.top_score)
                      THEN [best_score |-> evaluation.top_score,
                            best_model |-> all_results[i].name]
                      ELSE best)

evaluate_all_models(all_results, thr) ==
    LET best == BestFrom(all_results, thr, 1,
                         [best_score |-> F64Zero, best_model |-> NoModel])
    IN  [evaluations |->
            [m \in {all_results[i].name : i \in DOMAIN all_results} |->
                LET i == CHOOSE j \in DOMAIN all_results : all_results[j].name = m
                IN  evaluate_confidence(all_results[i].ranked, thr)],
         overall_confidence |->
            IF F64Lt(best.best_score, thr) THEN "low"
            ELSE IF F64Lt(best.best_score, IntTrueDiv(1, 2)) THEN "medium"
            ELSE "high",
         best_model |-> best.best_model,
         best_score |-> best.best_score]

(***************************************************************************)
(* ConfidenceScorer: state machine                                         *)
(***************************************************************************)
ThresholdArgs ==
    {[none |-> TRUE, value |-> F64Zero], [none |-> FALSE, value |-> F64Zero],
     [none |-> FALSE, value |-> F64One]}
ScorerModels == {"BM25", "Semantic"}
\* normalized top scores, around the default threshold
ScorerScores ==
    {F64Zero, IntTrueDiv(19, 100), F64Div(IntTrueDiv(3, 5), F64FromInt(3)), IntTrueDiv(1, 5),
     F64One}

ScoredLists == UNION {[1..n -> [score : ScorerScores]] : n \in 0..MaxScored}

\* the ranked result stored under a model's name carries that name as
\* 'model', or no 'model' key
RankedFor(m) ==
    {[has_model |-> h, model |-> m, results |-> l] : h \in BOOLEAN, l \in ScoredLists}

\* all_results dicts in insertion order: distinct model names
ScorerInputs ==
    {x \in UNION {[1..n -> UNION {{[name |-> m, ranked |-> r] : r \in RankedFor(m)} :
                                     m \in ScorerModels}] :
                     n \in 0..Cardinality(ScorerModels)} :
        \A i, j \in DOMAIN x : i # j => x[i].name # x[j].name}

InitScorer ==
    /\ threshold \in {NewThreshold(a) : a \in ThresholdArgs}
    /\ scorerInput \in ScorerInputs
    /\ confidence = NoConfidence
    /\ allConfidence = NoConfidence
    /\ IdleRetrieval /\ IdleMerge /\ IdleLabels /\ IdleMetrics /\ IdleEval
    /\ IdleTools

\* scorer.evaluate_confidence(all_results[name]) for one model of the input
EvaluateConfidence ==
    /\ ~confidence.called
    /\ \E i \in DOMAIN scorerInput :
          confidence' = [called |-> TRUE, arg |-> scorerInput[i].ranked,
                         out |-> evaluate_confidence(scorerInput[i].ranked, threshold)]
    /\ UNCHANGED <<threshold, scorerInput, allConfidence,
                   retrievalVars, mergeVars, labelVars, metricVars, evalVars, toolVars>>

\* scorer.evaluate_all_models(all_results)
EvaluateAllModels ==
    /\ ~allConfidence.called
    /\ allConfidence' = [called |-> TRUE,
                         out |-> evaluate_all_models(scorerInput, threshold)]
    /\ UNCHANGED <<threshold, scorerInput, confidence,
                   retrievalVars, mergeVars, labelVars, metricVars, evalVars, toolVars>>

NextScorer == EvaluateConfidence \/ EvaluateAllModels

SpecScorer == InitScorer /\ [][NextScorer]_vars

\* C13: low confidence is flagged exactly when the ranked result is empty or
\* its top score is strictly below the threshold; a flagged result carries a
\* warning and a recommendation, an unflagged one carries neither.
C13_LowExactlyBelowThreshold ==
    confidence.called =>
        LET res == confidence.arg.results
            out == confidence.out
        IN  /\ out.is_low_confidence <=>
                  (res = << >> \/ F64Lt(res[1].score, threshold))
            /\ out.is_low_confidence =>
                  (out.warning_message # NoneVal /\ out.recommendation # NoneVal)
            /\ ~out.is_low_confidence =>
                  (out.warning_message = NoneVal /\ out.recommendation = NoneVal)

\* a top score equal to the default threshold has been evaluated and is not flagged
C13_Witness ==
    /\ confidence.called
    /\ threshold = LOW_CONFIDENCE_THRESHOLD
    /\ confidence.arg.results # << >>
    /\ confidence.arg.results[1].score = threshold
    /\ ~confidence.out.is_low_confidence
    /\ confidence.out.warning_message = NoneVal

\* top score of one model's ranked result (0 for an empty result)
TopScoreOf(ranked_results) ==
    IF ranked_results.results = << >> THEN F64Zero ELSE ranked_results.results[1].score

\* C14: for a non-empty set of models, best_score is the maximum of the
\* models' top scores and best_model is a model whose top score is that
\* maximum, also when every top score is 0 or every result is empty.
C14_BestModelHasMaxTopScore ==
    (allConfidence.called /\ scorerInput # << >>) =>
        /\ \E i \in DOMAIN scorerInput :
              /\ allConfidence.out.best_model = scorerInput[i].name
              /\ TopScoreOf(scorerInput[i].ranked) = allConfidence.out.best_score
        /\ \A i \in DOMAIN scorerInput :
              F64Leq(TopScoreOf(scorerInput[i].ranked), allConfidence.out.best_score)

(***************************************************************************)
(* EvaluationMetrics                                                       *)
(*   identifiers are strings (sequences of characters), retrieved_docs is  *)
(*   a list of identifiers in ranked order, relevant_docs a set.           *)
(***************************************************************************)
\* retrieved_docs[:k] for k >= 0
Slice(s, k) == SubSeq(s, 1, Min(k, Len(s)))

\* sum(1 for doc in top_k if doc in relevant_set)
CountIn(top_k, relevant_set) ==
    Cardinality({i \in DOMAIN top_k : top_k[i] \in relevant_set})

\* variant: divides by the number of identifiers actually in the top k
precision_at_k_of_returned(retrieved, relevant_set, k) ==
    IF retrieved = << >> \/ k = 0 THEN F64Zero
    ELSE IntTrueDiv(CountIn(Slice(retrieved, k), relevant_set), Len(Slice(retrieved, k)))

\* relevant_in_k / k
precision_at_k(retrieved, relevant_set, k) ==
    IF retrieved = << >> \/ k = 0 THEN F64Zero
    ELSE IntTrueDiv(CountIn(Slice(retrieved, k), relevant_set), k)

\* relevant_in_k / len(relevant_set)
recall_at_k(retrieved, relevant_set, k) ==
    IF relevant_set = {} THEN F64Zero
    ELSE IntTrueDiv(CountIn(Slice(retrieved, k), relevant_set), Cardinality(relevant_set))

\* the floats math.log2(i + 1) for the positions i = 1..100, as CPython 3.11
\* returns them
Log2Table ==
    <<
      [neg |-> FALSE, hi |-> 67108864, lo |-> 0, e |-> -52],
      [neg |-> FALSE, hi |-> 106365032, lo |-> 60800360, e |-> -52],
      [neg |-> FALSE, hi |-> 67108864, lo |-> 0, e |-> -51],
      [neg |-> FALSE, hi |-> 77910978, lo |-> 24748913, e |-> -51],
      [neg |-> FALSE, hi |-> 86736948, lo |-> 30400180, e |-> -51],
      [neg |-> FALSE, hi |-> 94199199, lo |-> 55837741, e |-> -51],
      [neg |-> FALSE, hi |-> 100663296, lo |-> 0, e |-> -51],
      [neg |-> FALSE, hi |-> 106365032, lo |-> 60800360, e |-> -51],
      [neg |-> FALSE, hi |-> 111465410, lo |-> 24748913, e |-> -51],
      [neg |-> FALSE, hi |-> 116079263, lo |-> 417090, e |-> -51],
      [neg |-> FALSE, hi |-> 120291380, lo |-> 30400180, e |-> -51],
      [neg |-> FALSE, hi |-> 124166152, lo |-> 59892275, e |-> -51],
      [neg |-> FALSE, hi |-> 127753631, lo |-> 55837741, e |-> -51],
      [neg |-> FALSE, hi |-> 131093494, lo |-> 55149094, e |-> -51],
      [neg |-> FALSE, hi |-> 67108864, lo |-> 0, e |-> -50],
      [neg |-> FALSE, hi |-> 68576246, lo |-> 65741900, e |-> -50],
      [neg |-> FALSE, hi |-> 69959732, lo |-> 30400180, e |-> -50],
      [neg |-> FALSE, hi |-> 71268397, lo |-> 29889344, e |-> -50],
      [neg |-> FALSE, hi |-> 72509921, lo |-> 12374457, e |-> -50],
      [neg |-> FALSE, hi |-> 73690858, lo |-> 9564529, e |-> -50],
      [neg |-> FALSE, hi |-> 74816847, lo |-> 33762977, e |-> -50],
      [neg |-> FALSE, hi |-> 75892776, lo |-> 1754965, e |-> -50],
      [neg |-> FALSE, hi |-> 76922906, lo |-> 15200090, e |-> -50],
      [neg |-> FALSE, hi |-> 77910978, lo |-> 24748913, e |-> -50],
      [neg |-> FALSE, hi |-> 78860292, lo |-> 29946137, e |-> -50],
      [neg |-> FALSE, hi |-> 79773774, lo |-> 45600270, e |-> -50],
      [neg |-> FALSE, hi |-> 80654031, lo |-> 61473302, e |-> -50],
      [neg |-> FALSE, hi |-> 81503396, lo |-> 32155227, e |-> -50],
      [neg |-> FALSE, hi |-> 82323963, lo |-> 27574547, e |-> -50],
      [neg |-> FALSE, hi |-> 83117621, lo |-> 40652110, e |-> -50],
      [neg |-> FALSE, hi |-> 83886080, lo |-> 0, e |-> -50],
      [neg |-> FALSE, hi |-> 84630889, lo |-> 48963067, e |-> -50],
      [neg |-> FALSE, hi |-> 85353462, lo |-> 65741900, e |-> -50],
      [neg |-> FALSE, hi |-> 86055089, lo |-> 6738895, e |-> -50],
      [neg |-> FALSE, hi |-> 86736948, lo |-> 30400180, e |-> -50],
      [neg |-> FALSE, hi |-> 87400124, lo |-> 23963493, e |-> -50],
      [neg |-> FALSE, hi |-> 88045613, lo |-> 29889344, e |-> -50],
      [neg |-> FALSE, hi |-> 88674334, lo |-> 45146228, e |-> -50],
      [neg |-> FALSE, hi |-> 89287137, lo |-> 12374457, e |-> -50],
      [neg |-> FALSE, hi |-> 89884807, lo |-> 14274766, e |-> -50],
      [neg |-> FALSE, hi |-> 90468074, lo |-> 9564529, e |-> -50],
      [neg |-> FALSE, hi |-> 91037615, lo |-> 57903146, e |-> -50],
      [neg |-> FALSE, hi |-> 91594063, lo |-> 33762977, e |-> -50],
      [neg |-> FALSE, hi |-> 92138005, lo |-> 42774637, e |-> -50],
      [neg |-> FALSE, hi |-> 92669992, lo |-> 1754965, e |-> -50],
      [neg |-> FALSE, hi |-> 93190536, lo |-> 64141826, e |-> -50],
      [neg |-> FALSE, hi |-> 93700122, lo |-> 15200090, e |-> -50],
      [neg |-> FALSE, hi |-> 94199199, lo |-> 55837741, e |-> -50],
      [neg |-> FALSE, hi |-> 94688194, lo |-> 24748913, e |-> -50],
      [neg |-> FALSE, hi |-> 95167505, lo |-> 13833126, e |-> -50],
      [neg |-> FALSE, hi |-> 95637508, lo |-> 29946137, e |-> -50],
      [neg |-> FALSE, hi |-> 96098558, lo |-> 46776554, e |-> -50],
      [neg |-> FALSE, hi |-> 96550990, lo |-> 45600270, e |-> -50],
      [neg |-> FALSE, hi |-> 96995120, lo |-> 46137434, e |-> -50],
      [neg |-> FALSE, hi |-> 97431247, lo |-> 61473302, e |-> -50],
      [neg |-> FALSE, hi |-> 97859655, lo |-> 45089434, e |-> -50],
      [neg |-> FALSE, hi |-> 98280612, lo |-> 32155227, e |-> -50],
      [neg |-> FALSE, hi |-> 98694373, lo |-> 6042635, e |-> -50],
      [neg |-> FALSE, hi |-> 99101179, lo |-> 27574547, e |-> -50],
      [neg |-> FALSE, hi |-> 99501261, lo |-> 23592622, e |-> -50],
      [neg |-> FALSE, hi |-> 99894837, lo |-> 40652110, e |-> -50],
      [neg |-> FALSE, hi |-> 100282116, lo |-> 24764619, e |-> -50],
      [neg |-> FALSE, hi |-> 100663296, lo |-> 0, e |-> -50],
      [neg |-> FALSE, hi |-> 101038565, lo |-> 42320594, e |-> -50],
      [neg |-> FALSE, hi |-> 101408105, lo |-> 48963067, e |-> -50],
      [neg |-> FALSE, hi |-> 101772088, lo |-> 41847422, e |-> -50],
      [neg |-> FALSE, hi |-> 102130678, lo |-> 65741900, e |-> -50],
      [neg |-> FALSE, hi |-> 102484034, lo |-> 16955055, e |-> -50],
      [neg |-> FALSE, hi |-> 102832305, lo |-> 6738895, e |-> -50],
      [neg |-> FALSE, hi |-> 103175635, lo |-> 51627377, e |-> -50],
      [neg |-> FALSE, hi |-> 103514164, lo |-> 30400180, e |-> -50],
      [neg |-> FALSE, hi |-> 103848023, lo |-> 42039326, e |-> -50],
      [neg |-> FALSE, hi |-> 104177340, lo |-> 23963493, e |-> -50],
      [neg |-> FALSE, hi |-> 104502236, lo |-> 39949003, e |-> -50],
      [neg |-> FALSE, hi |-> 104822829, lo |-> 29889344, e |-> -50],
      [neg |-> FALSE, hi |-> 105139231, lo |-> 28127415, e |-> -50],
      [neg |-> FALSE, hi |-> 105451550, lo |-> 45146228, e |-> -50],
      [neg |-> FALSE, hi |-> 105759891, lo |-> 15355103, e |-> -50],
      [neg |-> FALSE, hi |-> 106064353, lo |-> 12374457, e |-> -50],
      [neg |-> FALSE, hi |-> 106365032, lo |-> 60800360, e |-> -50],
      [neg |-> FALSE, hi |-> 106662023, lo |-> 14274766, e |-> -50],
      [neg |-> FALSE, hi |-> 106955413, lo |-> 36790725, e |-> -50],
      [neg |-> FALSE, hi |-> 107245290, lo |-> 9564529, e |-> -50],
      [neg |-> FALSE, hi |-> 107531736, lo |-> 11007493, e |-> -50],
      [neg |-> FALSE, hi |-> 107814831, lo |-> 57903146, e |-> -50],
      [neg |-> FALSE, hi |-> 108094654, lo |-> 47355317, e |-> -50],
      [neg |-> FALSE, hi |-> 108371279, lo |-> 33762977, e |-> -50],
      [neg |-> FALSE, hi |-> 108644778, lo |-> 35550541, e |-> -50],
      [neg |-> FALSE, hi |-> 108915221, lo |-> 42774637, e |-> -50],
      [neg |-> FALSE, hi |-> 109182676, lo |-> 24310576, e |-> -50],
      [neg |-> FALSE, hi |-> 109447208, lo |-> 1754965, e |-> -50],
      [neg |-> FALSE, hi |-> 109708879, lo |-> 55852200, e |-> -50],
      [neg |-> FALSE, hi |-> 109967752, lo |-> 64141826, e |-> -50],
      [neg |-> FALSE, hi |-> 110223886, lo |-> 42263801, e |-> -50],
      [neg |-> FALSE, hi |-> 110477338, lo |-> 15200090, e |-> -50],
      [neg |-> FALSE, hi |-> 110728163, lo |-> 22451093, e |-> -50],
      [neg |-> FALSE, hi |-> 110976415, lo |-> 55837741, e |-> -50],
      [neg |-> FALSE, hi |-> 111222147, lo |-> 64163157, e |-> -50],
      [neg |-> FALSE, hi |-> 111465410, lo |-> 24748913, e |-> -50],
      [neg |-> FALSE, hi |-> 111706252, lo |-> 14751007, e |-> -50]
    >>

\* 1 / math.log2(i + 1) for every position i the table of logarithms covers
DiscountTable == [i \in DOMAIN Log2Table |-> F64Div(F64One, Log2Table[i])]

\* rel / math.log2(i + 1) for rel = 1, the term of a relevant position i
Discount(i) == DiscountTable[i]

\* the DCG loop over enumerate(retrieved_docs[:k], 1) from position i on,
\* entered with the value dcg
RECURSIVE DCGFrom(_, _, _, _)
DCGFrom(top_k, relevant_set, i, dcg) ==
    IF i > Len(top_k) THEN dcg
    ELSE LET relevance == IF top_k[i] \in relevant_set THEN 1 ELSE 0
             \* relevance / math.log2(i + 1): 0 / x is 0.0
             term == IF relevance = 0 THEN F64Zero ELSE Discount(i)
             next == F64Add(dcg, term)
         IN  IF Evaluated(next) THEN DCGFrom(top_k, relevant_set, i + 1, next) ELSE next

\* the terms rel / math.log2(i + 1) for i, rel in enumerate([1] * n, 1)
IdealTerms(n) == [i \in 1..n |-> Discount(i)]

\* binary relevance (relevance_scores=None); dcg is the total of a loop,
\* idcg the value of sum(), which depends on the interpreter
ndcg_at_k(retrieved, relevant_set, k, compensated) ==
    IF retrieved = << >> \/ k = 0 THEN F64Zero
    ELSE LET dcg == DCGFrom(Slice(retrieved, k), relevant_set, 1, F64Zero)
             idcg == sum(IdealTerms(Min(k, Cardinality(relevant_set))), compensated)
         IN  IF F64Eq(idcg, F64Zero) THEN F64Zero ELSE F64Div(dcg, idcg)

\* the loop over enumerate(retrieved_docs, 1) from position i on: the first
\* position that holds a relevant identifier, 0 when the loop runs out
FirstRelevantFrom(retrieved, relevant_set, i) ==
    LET hits == {j \in i..Len(retrieved) : retrieved[j] \in relevant_set}
    IN  IF hits = {} THEN 0 ELSE CHOOSE j \in hits : \A l \in hits : j <= l

\* variant: the search stops after the first two retrieved identifiers
mean_reciprocal_rank_top_two(retrieved, relevant_set) ==
    LET i == FirstRelevantFrom(Slice(retrieved, 2), relevant_set, 1)
    IN  IF i = 0 THEN F64Zero ELSE IntTrueDiv(1, i)

\* 1.0 / i at the first relevant position (the int i becomes a float, so
\* the result is the quotient of the two ints rounded once), else 0.0
mean_reciprocal_rank(retrieved, relevant_set) ==
    LET i == FirstRelevantFrom(retrieved, relevant_set, 1)
    IN  IF i = 0 THEN F64Zero ELSE IntTrueDiv(1, i)

\* the keys 'precision@k', 'recall@k', 'ndcg@k', 'mrr' are the fields
calculate_all_metrics(retrieved, relevant_set, k_precision, k_recall, k_ndcg, compensated) ==
    [precision |-> precision_at_k(retrieved, relevant_set, k_precision),
     recall |-> recall_at_k(retrieved, relevant_set, k_recall),
     ndcg |-> ndcg_at_k(retrieved, relevant_set, k_ndcg, compensated),
     mrr |-> mean_reciprocal_rank(retrieved, relevant_set)]

(***************************************************************************)
(* EvaluationMetrics: state machine                                        *)
(***************************************************************************)
MetricIds == {<<"1">>, <<"u">>, <<"v">>}

RetrievedLists == UNION {[1..n -> MetricIds] : n \in 0..MaxRetrieved}

Cutoffs == [k_precision : 0..MaxK, k_recall : 0..MaxK, k_ndcg : 0..MaxK]

\* the test data of the module's own test: 'doc' and a number
DocName(n) == <<"d", "o", "c">> \o DecimalDigits(n)
DocNames(numbers) == [i \in DOMAIN numbers |-> DocName(numbers[i])]

\* relevant = {'doc1', 'doc3', 'doc5', 'doc7', 'doc9', 'doc11', 'doc12'}
MainRelevant == {DocName(n) : n \in {1, 3, 5, 7, 9, 11, 12}}

\* retrieved, empty_retrieved and perfect_retrieved, the last one being
\* list(relevant) + [...] for two of the orders a set can be listed in
MainRetrieved ==
    {DocNames(<<1, 2, 3, 4, 5, 6, 7, 8, 9, 10>>),
     DocNames(<<20, 21, 22>>),
     DocNames(<<1, 3, 5, 7, 9, 11, 12, 20, 21, 22>>),
     DocNames(<<12, 9, 1, 11, 7, 5, 3, 20, 21, 22>>)}

\* the defaults k_precision=10, k_recall=50, k_ndcg=10
DefaultCutoffs == [k_precision |-> 10, k_recall |-> 50, k_ndcg |-> 10]

InitMetrics ==
    /\ \/ /\ retrieved_docs \in RetrievedLists
          /\ relevant_docs \in SUBSET MetricIds
          /\ cutoffs \in Cutoffs
       \/ /\ retrieved_docs \in MainRetrieved
          /\ relevant_docs = MainRelevant
          /\ cutoffs = DefaultCutoffs
    /\ metrics = NoMetrics
    /\ pythonMinor \in PythonMinors
    /\ IdleRetrieval /\ IdleMerge /\ IdleLabels /\ IdleScorer /\ IdleEval
    /\ IdleTools

\* EvaluationMetrics.calculate_all_metrics(retrieved_docs, relevant_docs, ...)
CalculateAllMetrics ==
    /\ ~metrics.called
    /\ metrics' = [called |-> TRUE,
                   out |-> calculate_all_metrics(retrieved_docs, relevant_docs,
                                                 cutoffs.k_precision, cutoffs.k_recall,
                                                 cutoffs.k_ndcg, CompensatedSum(pythonMinor))]
    /\ UNCHANGED <<retrieved_docs, relevant_docs, cutoffs, pythonMinor,
                   retrievalVars, mergeVars, labelVars, scorerVars, evalVars, toolVars>>

NextMetrics == CalculateAllMetrics

SpecMetrics == InitMetrics /\ [][NextMetrics]_vars

\* the 1-based positions up to k of the retrieved list that hold a relevant identifier
RelevantPositions(k) ==
    {i \in 1..Min(k, Len(retrieved_docs)) : retrieved_docs[i] \in relevant_docs}

\* C18: Precision@k is the number of positions among the first k that hold a
\* relevant identifier, divided by k; it is 0 when k = 0 or nothing was retrieved.
C18_PrecisionIsFractionOfFirstK ==
    metrics.called =>
        LET k == cutoffs.k_precision
        IN  IF k = 0 \/ retrieved_docs = << >>
            THEN metrics.out.precision = F64Zero
            ELSE metrics.out.precision =
                     IntTrueDiv(Cardinality(RelevantPositions(k)), k)

\* fewer identifiers than k were retrieved, some of them relevant and some not
C18_Witness ==
    /\ metrics.called
    /\ cutoffs.k_precision > Len(retrieved_docs)
    /\ Cardinality(RelevantPositions(cutoffs.k_precision)) = 2
    /\ Len(retrieved_docs) = 3
    /\ F64Lt(F64Zero, metrics.out.precision) /\ F64Lt(metrics.out.precision, F64One)

\* C19: Recall@k is the number of distinct relevant identifiers found among
\* the first k retrieved, divided by the size of the relevant set; it is 0
\* when the relevant set is empty.
C19_RecallIsFractionOfRelevant ==
    metrics.called =>
        LET k == cutoffs.k_recall
            found == {retrieved_docs[i] : i \in RelevantPositions(k)}
        IN  IF relevant_docs = {}
            THEN metrics.out.recall = F64Zero
            ELSE metrics.out.recall =
                     IntTrueDiv(Cardinality(found), Cardinality(relevant_docs))

\* the discounts of a set of positions, in ascending order of position
RECURSIVE DiscountsOf(_)
DiscountsOf(positions) ==
    IF positions = {} THEN << >>
    ELSE LET i == CHOOSE j \in positions : \A l \in positions : l <= j
         IN  Append(DiscountsOf(positions \ {i}), Discount(i))

\* C20: with binary relevance and k >= 1, nDCG@k is the sum of the discounts
\* of the positions up to k that hold a relevant identifier, divided by the
\* sum of the discounts of positions 1..min(k, number of relevant
\* identifiers); it is 0 when no relevant identifier exists and exactly 1
\* when the relevant positions are exactly those first positions.  The sums
\* are float sums in ascending order of position, the first one added up
\* term by term and the second one as the interpreter's sum() takes it.
C20_NdcgIsDiscountedRatio ==
    metrics.called =>
        LET k == cutoffs.k_ndcg
            ideal == 1..Min(k, Cardinality(relevant_docs))
        IN  /\ relevant_docs = {} => metrics.out.ndcg = F64Zero
            /\ (relevant_docs # {} /\ k >= 1) =>
                  metrics.out.ndcg =
                      F64Div(sum(DiscountsOf(RelevantPositions(k)), FALSE),
                             sum(DiscountsOf(ideal), CompensatedSum(pythonMinor)))
            /\ (relevant_docs # {} /\ k >= 1 /\ RelevantPositions(k) = ideal) =>
                  metrics.out.ndcg = F64One

(***************************************************************************)
(* SystemEvaluator.evaluate_model                                          *)
(*   retrieval_results is a function from query strings to lists of        *)
(*   identifiers; the metric keys 'precision@10', 'recall@50', 'ndcg@10',  *)
(*   'mrr' are the fields precision, recall, ndcg, mrr.                    *)
(***************************************************************************)
MetricNames == {"precision", "recall", "ndcg", "mrr"}

\* the float literals 0.6, 0.5, 0.5, 0.4
TARGETS ==
    [precision |-> IntTrueDiv(6, 10), recall |-> IntTrueDiv(5, 10),
     ndcg |-> IntTrueDiv(5, 10), mrr |-> IntTrueDiv(4, 10)]

\* variant: the first judged query missing from the results ends the loop
RECURSIVE PerQueryFromBreak(_, _, _, _, _)
PerQueryFromBreak(lbls, keys, retrieval_results, i, compensated) ==
    IF i > Len(keys) THEN << >>
    ELSE LET query == keys[i]
         IN  IF query \notin DOMAIN retrieval_results
             THEN << >>
             ELSE LET retrieved == retrieval_results[query]
                      rel == lbls[query]
                      m == calculate_all_metrics(retrieved, rel, 10, 50, 10, compensated)
                  IN  <<[query |-> query,
                         precision |-> m.precision, recall |-> m.recall,
                         ndcg |-> m.ndcg, mrr |-> m.mrr,
                         num_relevant |-> Cardinality(rel),
                         num_retrieved_relevant |-> CountIn(Slice(retrieved, 50), rel)]>>
                      \o PerQueryFromBreak(lbls, keys, retrieval_results, i + 1, compensated)

\* the loop 'for query in self.labels.keys()' from key i on: per_query_metrics
RECURSIVE PerQueryFrom(_, _, _, _, _)
PerQueryFrom(lbls, keys, retrieval_results, i, compensated) ==
    IF i > Len(keys) THEN << >>
    ELSE LET query == keys[i]
         IN  IF query \notin DOMAIN retrieval_results
             THEN PerQueryFrom(lbls, keys, retrieval_results, i + 1, compensated)
             ELSE LET retrieved == retrieval_results[query]
                      rel == lbls[query]
                      m == calculate_all_metrics(retrieved, rel, 10, 50, 10, compensated)
                  IN  <<[query |-> query,
                         precision |-> m.precision, recall |-> m.recall,
                         ndcg |-> m.ndcg, mrr |-> m.mrr,
                         num_relevant |-> Cardinality(rel),
                         num_retrieved_relevant |-> CountIn(Slice(retrieved, 50), rel)]>>
                      \o PerQueryFrom(lbls, keys, retrieval_results, i + 1, compensated)

\* aggregated_metrics[metric_name]: the values appended query by query
ValuesOf(per_query, metric_name) ==
    [i \in DOMAIN per_query |-> per_query[i][metric_name]]

\* sum(values) / len(values) if values else 0.0
Average(per_query, metric_name, compensated) ==
    IF per_query = << >> THEN F64Zero
    ELSE F64Div(sum(ValuesOf(per_query, metric_name), compensated),
                F64FromInt(Len(per_query)))

\* variant: an aggregate equal to its target does not meet it
MeetsTargetStrict(avg, target) == F64Lt(target, avg)

\* avg_metrics.get(metric_name, 0) >= target
MeetsTarget(avg, target) == F64Leq(target, avg)

\* avg_metrics: the average of every metric over the per-query records
avg_metrics(per_query_metrics, compensated) ==
    [m \in MetricNames |-> Average(per_query_metrics, m, compensated)]

\* meets_targets and the dict evaluate_model returns, from per_query_metrics
EvaluationResults(model_name, per_query_metrics, compensated) ==
    [model |-> model_name,
     metrics |-> avg_metrics(per_query_metrics, compensated),
     per_query |-> per_query_metrics,
     meets_targets |->
         [m \in MetricNames |->
             MeetsTarget(avg_metrics(per_query_metrics, compensated)[m], TARGETS[m])],
     num_queries |-> Len(per_query_metrics)]

evaluate_model(lbls, keys, retrieval_results, model_name, compensated) ==
    EvaluationResults(model_name,
                      PerQueryFrom(lbls, keys, retrieval_results, 1, compensated),
                      compensated)

(***************************************************************************)
(* evaluate_model: state machine                                           *)
(***************************************************************************)
\* rows of the judgment files of an evaluation run
EvalRows ==
    [query : Queries, doc_id : {<< >>, <<"1">>}, doc_url : UrlFields,
     relevant : {<<"y", "e", "s">>, <<"n", "o">>}]
    \cup {[query |-> <<"a">>, doc_id |-> NoneVal, doc_url |-> NoneVal, relevant |-> NoneVal]}

EvalFiles ==
    {NoFile} \cup
    {[exists |-> TRUE, rows |-> r] : r \in UNION {[1..n -> EvalRows] : n \in 0..MaxEvalRows}}

\* a query of the results that has no judgment
Unjudged == <<"c">>
EvalQueries == {Strip(q) : q \in Queries} \cup {Unjudged}
EvalLists == UNION {[1..n -> {<<"1">>, <<"u">>}] : n \in 0..MaxEvalRetrieved}

\* retrieval_results: {query: [doc_id, ...]}
EvalResultMaps ==
    {f \in UNION {[D -> EvalLists] : D \in SUBSET EvalQueries} :
        Unjudged \in DOMAIN f => f[Unjudged] = <<<<"1">>>>}

EvalModelNames == {"BM25"}

InitEvaluator ==
    /\ labelRows \in EvalFiles
    /\ labels = << >>
    /\ labelKeys = << >>
    /\ allLabels = << >>
    /\ loaded = FALSE
    /\ evalResults = << >>
    /\ modelEval = NoEvaluation
    /\ pythonMinor \in PythonMinors
    /\ NoMetricCall
    /\ IdleRetrieval /\ IdleMerge /\ IdleScorer
    /\ IdleTools

\* evaluator.evaluate_model(model_name, retrieval_results)
EvaluateModel ==
    /\ loaded
    /\ ~modelEval.called
    /\ \E rr \in EvalResultMaps, model_name \in EvalModelNames :
          /\ evalResults' = rr
          /\ modelEval' = [called |-> TRUE,
                           out |-> evaluate_model(labels, labelKeys, rr, model_name,
                                                  CompensatedSum(pythonMinor))]
    /\ UNCHANGED <<retrievalVars, mergeVars, labelVars, scorerVars, metricVars, toolVars>>

NextEvaluator == NewEvaluator \/ EvaluateModel

SpecEvaluator == InitEvaluator /\ [][NextEvaluator]_vars

\* the judged queries that the supplied results hold
EvaluatedQueries == {q \in DOMAIN labels : q \in DOMAIN evalResults}

\* the per-query record of a query
RecordOf(q) ==
    modelEval.out.per_query[CHOOSE i \in DOMAIN modelEval.out.per_query :
                                modelEval.out.per_query[i].query = q]

\* the judged queries that the results hold, in the order of the judgments
EvaluatedInOrder == SelectSeq(labelKeys, LAMBDA q : q \in DOMAIN evalResults)

\* the values of a metric in the records of the evaluated queries, in that
\* order
MetricValues(m) == [n \in DOMAIN EvaluatedInOrder |-> RecordOf(EvaluatedInOrder[n])[m]]

\* C16: evaluate_model yields exactly one record for each query that is both
\* judged and in the results, holding that query's metrics; judged queries
\* missing from the results are skipped; num_queries is the number of
\* records; each aggregate is the arithmetic mean over exactly those records
\* (their float sum, as the interpreter's sum() takes it, divided by their
\* number).
C16_OneRecordPerEvaluatedQuery ==
    modelEval.called =>
        LET out == modelEval.out
        IN  /\ {out.per_query[i].query : i \in DOMAIN out.per_query} = EvaluatedQueries
            /\ Len(out.per_query) = Cardinality(EvaluatedQueries)
            /\ out.num_queries = Len(out.per_query)
            /\ \A q \in EvaluatedQueries : \A m \in MetricNames :
                  RecordOf(q)[m] =
                      calculate_all_metrics(evalResults[q], labels[q], 10, 50, 10,
                                            CompensatedSum(pythonMinor))[m]
            /\ EvaluatedQueries # {} =>
                  \A m \in MetricNames :
                      out.metrics[m] =
                          F64Div(sum(MetricValues(m), CompensatedSum(pythonMinor)),
                                 F64FromInt(Cardinality(EvaluatedQueries)))

\* the first judged query is missing from the results, the second one is
\* evaluated
C16_Witness ==
    /\ modelEval.called
    /\ Len(labelKeys) = 2
    /\ labelKeys[1] \notin DOMAIN evalResults
    /\ labelKeys[2] \in DOMAIN evalResults
    /\ modelEval.out.num_queries = 1
    /\ modelEval.out.per_query[1].query = labelKeys[2]

\* C17: meets_targets[m] is true exactly when the aggregate of m is at least
\* its target (precision@10 0.6, recall@50 0.5, ndcg@10 0.5, mrr 0.4); with
\* no query evaluated every aggregate is 0 and no target is met.
C17_MeetsTargetIffAtLeast ==
    modelEval.called =>
        LET out == modelEval.out
            target == [precision |-> IntTrueDiv(3, 5), recall |-> IntTrueDiv(1, 2),
                       ndcg |-> IntTrueDiv(1, 2), mrr |-> IntTrueDiv(2, 5)]
        IN  /\ \A m \in MetricNames :
                  out.meets_targets[m] <=> ~F64Lt(out.metrics[m], target[m])
            /\ out.num_queries = 0 =>
                  \A m \in MetricNames :
                      out.metrics[m] = F64Zero /\ ~out.meets_targets[m]

\* the mean recall@50 over two evaluated queries is exactly its target 0.5,
\* and the target counts as met
C17_Witness ==
    /\ modelEval.called
    /\ modelEval.out.num_queries = 2
    /\ modelEval.out.per_query[1].recall # modelEval.out.per_query[2].recall
    /\ modelEval.out.metrics.recall = IntTrueDiv(1, 2)
    /\ modelEval.out.meets_targets.recall

\* C21: MRR is 1/r for the 1-based position r of the first retrieved
\* identifier that is relevant, looked for in the whole retrieved list, and
\* 0 when no retrieved identifier is relevant.
C21_MrrIsReciprocalOfFirstRelevant ==
    metrics.called =>
        LET pos == RelevantPositions(Len(retrieved_docs))
        IN  IF pos = {}
            THEN metrics.out.mrr = F64Zero
            ELSE \E r \in pos :
                    /\ \A i \in pos : r <= i
                    /\ metrics.out.mrr = IntTrueDiv(1, r)

\* the first relevant identifier stands at position 3, beyond every cut-off
\* of the call
C21_Witness ==
    /\ metrics.called
    /\ RelevantPositions(Len(retrieved_docs)) = {3}
    /\ cutoffs.k_precision < 3 /\ cutoffs.k_recall < 3 /\ cutoffs.k_ndcg < 3
    /\ metrics.out.mrr = IntTrueDiv(1, 3)

\* C25: Recall@k lies in [0, 1] for every retrieved list, lists that repeat
\* an identifier included, every relevant set and every k >= 0.
C25_RecallInUnitInterval ==
    metrics.called =>
        (F64Leq(F64Zero, metrics.out.recall) /\ F64Leq(metrics.out.recall, F64One))

\* C26: nDCG@k with binary relevance lies in [0, 1] for every retrieved
\* list, lists that repeat an identifier included, every relevant set and
\* every k >= 0.
C26_NdcgInUnitInterval ==
    metrics.called =>
        (F64Leq(F64Zero, metrics.out.ndcg) /\ F64Leq(metrics.out.ndcg, F64One))

\* C28: the report of evaluate_all_models has overall_confidence 'low'
\* exactly when every model verdict in it has is_low_confidence true.
C28_OverallLowIffAllVerdictsLow ==
    allConfidence.called =>
        (allConfidence.out.overall_confidence = "low"
            <=> \A i \in DOMAIN allConfidence.out.evaluations :
                    allConfidence.out.evaluations[i].is_low_confidence)

\* the documents of the weighted models' lists in the order the aggregation
\* loop meets them, from item i on
RECURSIVE Encountered(_)
Encountered(i) ==
    IF i > Len(allResults) THEN << >>
    ELSE (IF i \in WeightedItems
          THEN [j \in DOMAIN allResults[i].results |-> allResults[i].results[j].doc]
          ELSE << >>) \o Encountered(i + 1)

\* position at which document d is met first
FirstEncounter(d) ==
    LET e == Encountered(1)
    IN  CHOOSE p \in DOMAIN e : e[p] = d /\ \A q \in 1..(p - 1) : e[q] # d

\* C29: the merged list is well formed: each document occurs in exactly one
\* entry, ranks are 1..n without gaps, combined scores do not increase with
\* the rank, and entries of equal combined score keep the order in which
\* their documents were first encountered.
C29_MergedListWellFormed ==
    merged.called =>
        /\ \A r, q \in DOMAIN merged.out :
               merged.out[r].doc = merged.out[q].doc => r = q
        /\ \A r \in DOMAIN merged.out : merged.out[r].rank = r
        /\ \A r, q \in DOMAIN merged.out :
               r < q => F64Leq(merged.out[q].score, merged.out[r].score)
        /\ \A r, q \in DOMAIN merged.out :
               (r < q /\ F64Eq(merged.out[r].score, merged.out[q].score)) =>
                   FirstEncounter(merged.out[r].doc) < FirstEncounter(merged.out[q].doc)

\* two documents tie on a non-zero combined score, the one encountered
\* first is document 2, and it is ranked first
C29_Witness ==
    /\ merged.called
    /\ Len(merged.out) = 2
    /\ merged.out[1].score = merged.out[2].score
    /\ merged.out[1].score # F64Zero
    /\ merged.out[1].doc = 2 /\ merged.out[2].doc = 1
    /\ FirstEncounter(2) < FirstEncounter(1)

\* C24: rank_documents returns min(top_k, number of input results) entries;
\* entry i has rank i, refers to the document of the i-th input result,
\* carries as raw_score the input's raw_score when present and otherwise its
\* score, and is tagged with the given model name; for a model name that is
\* not one of the four known ones the score is the input score unchanged.
C24_RankedEntriesMirrorInput ==
    IsRanked =>
        /\ Len(ranked.results) = Min(ranked.top_k, Len(results))
        /\ \A i \in DOMAIN ranked.results :
              /\ ranked.results[i].rank = i
              /\ ranked.results[i].doc = results[i].doc
              /\ ranked.results[i].model = ranked.model
              /\ results[i].raw_score # NoKey =>
                    ranked.results[i].raw_score = results[i].raw_score
              /\ (results[i].raw_score = NoKey /\ results[i].score # NoKey) =>
                    ranked.results[i].raw_score = results[i].score
              /\ (ranked.model \notin ModelNames /\ results[i].score # NoKey) =>
                    ranked.results[i].score = results[i].score

\* a list of two results is cut to its first entry under an unknown model
\* name; the entry has a raw_score that differs from its score
C24_Witness ==
    /\ IsRanked
    /\ ranked.model = "Other"
    /\ Len(results) = 2 /\ ranked.top_k = 1
    /\ Len(ranked.results) = 1
    /\ results[1].raw_score # NoKey /\ results[1].score # NoKey
    /\ results[1].raw_score # results[1].score
    /\ ranked.results[1].raw_score = results[1].raw_score
    /\ ranked.results[1].score = results[1].score

(***************************************************************************)
(* F64One retrieval result through the pipeline: rank_documents and           *)
(* evaluate_confidence as in run_module_d_ranking.py, the identifiers of   *)
(* the retrieved documents and the metrics as in                           *)
(* run_module_d_evaluation.py.                                             *)
(***************************************************************************)
MaxPipeline == 2

\* a document dict: its doc_id and url, Absent for a missing key
Absent == <<"absent">>
PipelineDocs ==
    {[doc_id |-> <<"1">>, url |-> <<"u">>], [doc_id |-> Absent, url |-> Absent]}

\* doc.get('doc_id', doc.get('url', ''))
DocIdOf(doc) ==
    IF doc.doc_id # Absent THEN doc.doc_id
    ELSE IF doc.url # Absent THEN doc.url ELSE << >>

\* the doc_ids list built from a retrieval result
DocIds(res) == [i \in DOMAIN res |-> DocIdOf(res[i].doc)]

PipelineScores == {IntTrueDiv(1, 10), F64One}
PipelineLists ==
    UNION {[1..n -> [doc : PipelineDocs, score : PipelineScores]] : n \in 0..MaxPipeline}

\* the defaults of calculate_all_metrics, and cut-offs of 1
PipelineCutoffs ==
    {[k_precision |-> 10, k_recall |-> 50, k_ndcg |-> 10],
     [k_precision |-> 1, k_recall |-> 1, k_ndcg |-> 1]}

InitPipeline ==
    /\ documents = << >> /\ embeddings = << >> /\ cacheFile = << >> /\ tiePerm = << >>
    /\ \E l \in PipelineLists :
          results = [i \in DOMAIN l |->
                        Entry(l[i].doc, l[i].score, l[i].score, NoKey, i, "caller")]
    /\ call = [op |-> "caller", top_k |-> 0]
    /\ raised = FALSE
    /\ ranked = NoRanked
    /\ threshold \in {NewThreshold(a) : a \in ThresholdArgs}
    /\ scorerInput = << >>
    /\ confidence = NoConfidence /\ allConfidence = NoConfidence
    /\ retrieved_docs = << >>
    /\ relevant_docs \in SUBSET {DocIdOf(d) : d \in PipelineDocs}
    /\ cutoffs \in PipelineCutoffs
    /\ metrics = NoMetrics
    /\ pythonMinor \in PythonMinors
    /\ IdleMerge /\ IdleLabels /\ IdleEval /\ IdleTools

\* scorer.evaluate_confidence(ranked) on the ranked result
PipelineConfidence ==
    /\ IsRanked
    /\ ~confidence.called
    /\ LET ranked_results == [has_model |-> TRUE, model |-> ranked.model,
                              results |-> ranked.results]
       IN  confidence' = [called |-> TRUE, arg |-> ranked_results,
                          out |-> evaluate_confidence(ranked_results, threshold)]
    /\ UNCHANGED <<threshold, scorerInput, allConfidence, retrievalVars, mergeVars,
                   labelVars, metricVars, evalVars, toolVars>>

\* the identifiers of the retrieved documents are extracted and scored
PipelineMetrics ==
    /\ ~metrics.called
    /\ retrieved_docs' = DocIds(results)
    /\ metrics' = [called |-> TRUE,
                   out |-> calculate_all_metrics(DocIds(results), relevant_docs,
                                                 cutoffs.k_precision, cutoffs.k_recall,
                                                 cutoffs.k_ndcg, CompensatedSum(pythonMinor))]
    /\ UNCHANGED <<relevant_docs, cutoffs, pythonMinor, retrievalVars, mergeVars, labelVars,
                   scorerVars, evalVars, toolVars>>

NextPipeline ==
    \/ RankDocuments
    \/ PipelineConfidence
    \/ PipelineMetrics

SpecPipeline == InitPipeline /\ [][NextPipeline]_vars

\* C22: an empty retrieval result is a valid value down the pipeline:
\* rank_documents returns an empty ranked result for every model name,
\* evaluate_confidence flags it as low confidence with top score 0 for every
\* threshold, and each of the four metrics of an empty retrieved list is 0.
C22_EmptyResultPropagates ==
    results = << >> =>
        /\ IsRanked => ranked.results = << >>
        /\ confidence.called =>
              /\ confidence.out.is_low_confidence
              /\ confidence.out.top_score = F64Zero
        /\ metrics.called =>
              /\ metrics.out.precision = F64Zero
              /\ metrics.out.recall = F64Zero
              /\ metrics.out.ndcg = F64Zero
              /\ metrics.out.mrr = F64Zero

\* an empty result has gone through ranking under an unknown model name,
\* confidence scoring with threshold 0 and the metrics with a non-empty
\* relevant set
C22_Witness ==
    /\ results = << >>
    /\ IsRanked /\ ranked.model = "Other" /\ ranked.top_k > 0
    /\ confidence.called /\ threshold = F64Zero
    /\ confidence.out.is_low_confidence
    /\ metrics.called /\ relevant_docs # {}
    /\ metrics.out.mrr = F64Zero

(***************************************************************************)
(* Repeated searches on one built retriever                                *)
(*   retriever: the attributes of the retriever object: kind, documents    *)
(*   (self.documents), float32 (whether the embeddings of a                *)
(*   SemanticRetriever are float32, FALSE for the other retrievers) and    *)
(*   index, which stands for what __init__ built for                       *)
(*   the library to score with: self.bm25 of BM25Retriever,                *)
(*   self.vectorizer and self.tfidf_matrix of TFIDFRetriever,              *)
(*   self.doc_texts of FuzzyRetriever, self.model and self.embeddings of   *)
(*   SemanticRetriever.  The libraries are not part of the repository: a   *)
(*   scoring call is taken to return a value fixed by its arguments and to *)
(*   leave them as they are, and np.argsort to order equal scores the same *)
(*   way every time.  The index is represented by the table of the scores  *)
(*   the library computes from it: for each thing it can be asked with,    *)
(*   one score per document.                                               *)
(*   A call of search is modelled statement by statement on env, the       *)
(*   object and the local variables of the call: [self, query, top_k,      *)
(*   scores, results].  searchLog: the calls made so far with what they    *)
(*   returned.                                                             *)
(***************************************************************************)
MaxCalls == 3

RepeatKinds == ModelNames
RepeatDocuments == <<1, 2>>

\* the queries: lists of tokens for BM25 and TF-IDF, strings for Fuzzy and
\* Semantic
RepeatQueries(kind) ==
    IF kind \in {"BM25", "TF-IDF"}
    THEN {<<<<"a">>>>, <<<<"a">>, <<"B">>>>}
    ELSE {<<"a">>, <<"B">>}

RepeatScores(kind, float32) ==
    CASE kind = "BM25" -> {IntTrueDiv(3, 5), F64FromInt(3)}
      [] kind = "TF-IDF" -> {F64Zero, IntTrueDiv(3, 10)}
      [] kind = "Fuzzy" -> {F64FromInt(7), F64FromInt(100)}
      [] kind = "Semantic" -> {NpFloat(c, float32) : c \in {F64FromInt(-1), IntTrueDiv(1, 3)}}

\* ' '.join(query_tokens)
RECURSIVE JoinSpace(_)
JoinSpace(tokens) ==
    IF tokens = << >> THEN << >>
    ELSE IF Len(tokens) = 1 THEN tokens[1]
    ELSE tokens[1] \o <<" ">> \o JoinSpace(Tail(tokens))

\* what search hands to the library: query_tokens (BM25), query_text
\* (TF-IDF), query_lower (Fuzzy), query (Semantic)
AskedWith(kind, query, unicode) ==
    CASE kind = "BM25" -> query
      [] kind = "TF-IDF" -> JoinSpace(query)
      [] kind = "Fuzzy" -> Lower(query, unicode)
      [] kind = "Semantic" -> query

RepeatKeys(kind) ==
    {AskedWith(kind, q, UnicodeVersion(v)) : q \in RepeatQueries(kind), v \in PythonMinors}

\* the retrievers __init__ can have built over the two documents
BuiltRetrievers(kind) ==
    UNION {{[kind |-> kind, documents |-> RepeatDocuments, float32 |-> f, index |-> t] :
               t \in [RepeatKeys(kind) -> [DOMAIN RepeatDocuments -> RepeatScores(kind, f)]]} :
           f \in IF kind = "Semantic" THEN BOOLEAN ELSE {FALSE}}

\* the call as it is entered
EnterSearch(self, query, top_k) ==
    [self |-> self, query |-> query, top_k |-> top_k, scores |-> << >>, results |-> << >>]

\* the statements up to scores = ...: they read the index and assign to
\* local variables
ScoringStatements(env, unicode) ==
    [env EXCEPT !.scores = env.self.index[AskedWith(env.self.kind, env.query, unicode)]]

\* top_indices = np.argsort(scores)[-top_k:][::-1] and the loop that appends
\* to results, in the retriever of the kind
SelectAndBuild(kind, docs, scores, float32, top_k, tie) ==
    CASE kind = "BM25" -> BM25Search(docs, scores, top_k, tie)
      [] kind = "TF-IDF" -> TFIDFSearch(docs, scores, top_k, tie)
      [] kind = "Fuzzy" -> FuzzySearch(docs, scores, top_k, tie)
      [] kind = "Semantic" -> SemanticSearch(docs, scores, float32, top_k, tie)

\* variant: the documents are first put in the order of their scores, in
\* place (self.documents.sort), and the results are built from that list
ResultStatementsSortInPlace(env, tie) ==
    LET order == Reverse(ArgSort(env.scores, tie))
        sorted == [k \in DOMAIN order |-> env.self.documents[order[k]]]
    IN  [env EXCEPT !.self.documents = sorted,
                    !.results = SelectAndBuild(env.self.kind, sorted,
                                               [k \in DOMAIN order |-> env.scores[order[k]]],
                                               env.self.float32, env.top_k, tie)]

\* the statements from top_indices = ... to the end of the loop: they read
\* scores and self.documents and assign to local variables
ResultStatements(env, tie) ==
    [env EXCEPT !.results = SelectAndBuild(env.self.kind, env.self.documents, env.scores,
                                           env.self.float32, env.top_k, tie)]

\* retriever.search(query, top_k), up to its return statement
SearchCall(self, query, top_k, tie, unicode) ==
    ResultStatements(ScoringStatements(EnterSearch(self, query, top_k), unicode), tie)

InitRepeat ==
    /\ \E kind \in RepeatKinds : retriever \in BuiltRetrievers(kind)
    /\ searchLog = << >>
    /\ documents = << >> /\ embeddings = << >> /\ cacheFile = << >>
    /\ tiePerm \in Perms(Len(RepeatDocuments))
    /\ results = << >> /\ call = NoCall /\ raised = FALSE /\ ranked = NoRanked
    /\ session = NoSession /\ response = "none"
    /\ profiler = NoProfiler /\ frames = << >> /\ clock = NoClock /\ lastExit = "none"
    /\ IdleMerge /\ IdleLabels /\ IdleLater

\* retriever.search(query, top_k): the call returns its results and leaves
\* the object as its statements left it
RepeatSearch ==
    /\ Len(searchLog) < MaxCalls
    /\ \E query \in RepeatQueries(retriever.kind), top_k \in 0..MaxTopK :
          /\ searchLog' = Append(searchLog,
                                 [query |-> query, top_k |-> top_k,
                                  out |-> SearchCall(retriever, query, top_k, tiePerm,
                                                     UnicodeVersion(pythonMinor)).results])
          /\ retriever' = SearchCall(retriever, query, top_k, tiePerm,
                                     UnicodeVersion(pythonMinor)).self
    /\ UNCHANGED <<retrievalVars, mergeVars, labelVars, scorerVars, metricVars, evalVars,
                   session, response, profiler, frames, clock, lastExit>>

NextRepeat == RepeatSearch

SpecRepeat == InitRepeat /\ [][NextRepeat]_vars

\* C23: search is read-only and deterministic: no call changes the
\* retriever (document list, index), and any two calls with the same query
\* and top_k, whatever calls lie between them, returned the same ranked
\* result.
C23_SearchReadOnlyDeterministic ==
    /\ [][retriever' = retriever]_vars
    /\ [](\A i, j \in DOMAIN searchLog :
             (searchLog[i].query = searchLog[j].query
              /\ searchLog[i].top_k = searchLog[j].top_k)
                 => searchLog[i].out = searchLog[j].out)

\* the first and the third call are the same, a call with the other query
\* lies between them, and the repeated call returned two tied documents
C23_Witness ==
    /\ Len(searchLog) = 3
    /\ searchLog[1].query = searchLog[3].query
    /\ searchLog[1].top_k = searchLog[3].top_k
    /\ searchLog[2].query # searchLog[1].query
    /\ Len(searchLog[3].out) = 2
    /\ searchLog[3].out[1].score = searchLog[3].out[2].score
    /\ searchLog[3].out = searchLog[1].out

(***************************************************************************)
(* RelevanceLabelingTool: an interactive labeling session                  *)
(*   session: the tool and the position of start_labeling_session:         *)
(*   queries, shown (per query, the number of results _label_query shows), *)
(*   output_file, labels (self.labels), file (whether the output file      *)
(*   exists, and its rows), qi / di (query and document being prompted),   *)
(*   created (labels_created of the session), cur (labels_created of the   *)
(*   running _label_query), pc.                                            *)
(*   response: the last line read by input(), lower-cased and stripped.    *)
(***************************************************************************)
MaxLabelQueries == 2
MaxShown == 2

LabelQueries == {<<"a">>, <<"b">>}
QueryLists ==
    {q \in UNION {[1..n -> LabelQueries] : n \in 0..MaxLabelQueries} :
        \A i, j \in DOMAIN q : i # j => q[i] # q[j]}

\* output_file: a path with a directory part and a bare file name
OutputFiles == {<<"d", "/", "l">>, <<"l">>}

\* the lines input() can return
InputLines ==
    {<<"y">>, <<"Y", "E", "S">>, <<" ", "n">>, <<"N", "o", "\t">>,
     <<"s", "k", "i", "p">>, <<"S", "k", "i", "p", " ">>,
     <<"q", "u", "i", "t">>, <<"Q">>, <<"x">>, << >>}

\* any(label['query'] == query for label in self.labels)
_is_query_labeled(labels_, query) ==
    \E k \in DOMAIN labels_ : labels_[k].query = query

\* os.path.dirname: the path up to its last slash, without the slashes that
\* end it unless it is made of slashes only
dirname(p) ==
    LET slashes == {i \in DOMAIN p : p[i] = "/"}
        last == CHOOSE i \in slashes : \A j \in slashes : j <= i
        others == {i \in 1..last : p[i] # "/"}
    IN  IF slashes = {} THEN << >>
        ELSE IF others = {} THEN SubSeq(p, 1, last)
        ELSE SubSeq(p, 1, CHOOSE i \in others : \A j \in others : j <= i)

\* _save_labels: os.makedirs raises FileNotFoundError on the empty directory
\* name of a bare file name, the except clause swallows it and nothing is
\* written; otherwise the file is rewritten with one row per label
_save_labels(s) ==
    IF dirname(s.output_file) = << >> THEN s
    ELSE [s EXCEPT !.file = [exists |-> TRUE, rows |-> s.labels]]

\* the for loop of start_labeling_session from query i on, up to the next
\* prompt or the end of the session
RECURSIVE LabelFrom(_, _)
LabelFrom(s, i) ==
    IF i > Len(s.queries) THEN [s EXCEPT !.pc = "done", !.qi = i, !.di = 0, !.cur = 0]
    ELSE IF _is_query_labeled(s.labels, s.queries[i]) THEN LabelFrom(s, i + 1)
    ELSE IF s.shown[s.queries[i]] = 0 THEN LabelFrom(_save_labels(s), i + 1)
    ELSE [s EXCEPT !.pc = "prompt", !.qi = i, !.di = 1, !.cur = 0]

\* _label_query returns: its count is added and the labels are saved
ReturnFromQuery(s) ==
    LabelFrom(_save_labels([s EXCEPT !.created = s.created + s.cur]), s.qi + 1)

\* one pass of the while True loop of _label_query on the response r
Answer(s, r) ==
    CASE r \in {<<"y">>, <<"y", "e", "s">>, <<"n">>, <<"n", "o">>} ->
            LET labelled ==
                    [s EXCEPT !.labels = Append(s.labels,
                                  [query |-> s.queries[s.qi], doc |-> s.di,
                                   relevant |-> IF r \in {<<"y">>, <<"y", "e", "s">>}
                                                THEN "yes" ELSE "no"]),
                              !.cur = s.cur + 1]
            IN  IF s.di < s.shown[s.queries[s.qi]]
                THEN [labelled EXCEPT !.di = s.di + 1]
                ELSE ReturnFromQuery(labelled)
      [] r = <<"s", "k", "i", "p">> -> s
      [] r \in {<<"q", "u", "i", "t">>, <<"q">>} -> ReturnFromQuery(s)
      [] OTHER -> s

\* the output file before the session: absent, empty, or holding the label
\* of an earlier session for query a
EarlierFiles ==
    {NoFile, [exists |-> TRUE, rows |-> << >>],
     [exists |-> TRUE, rows |-> <<[query |-> <<"a">>, doc |-> 1, relevant |-> "yes"]>>]}

\* the tool after __init__, which loads the rows of an existing output file
InitLabeling ==
    /\ \E q \in QueryLists, sh \in [LabelQueries -> 0..MaxShown], out \in OutputFiles,
          old \in EarlierFiles :
          session = [pc |-> "start", queries |-> q, shown |-> sh, output_file |-> out,
                     labels |-> old.rows, file |-> old, qi |-> 0, di |-> 0,
                     created |-> 0, cur |-> 0]
    /\ response = NoneVal
    /\ pythonMinor \in PythonMinors
    /\ retriever = NoRetriever /\ searchLog = << >>
    /\ profiler = NoProfiler /\ frames = << >> /\ clock = NoClock /\ lastExit = "none"
    /\ IdleRetrieval /\ IdleMerge /\ IdleLabels
    /\ IdleScorer /\ NoMetricCall /\ IdleEval

\* start_labeling_session up to its first prompt
StartLabelingSession ==
    /\ session.pc = "start"
    /\ session' = LabelFrom(session, 1)
    /\ UNCHANGED <<response, retriever, searchLog, profiler, frames, clock, lastExit,
                   retrievalVars, mergeVars, labelVars, scorerVars, metricVars, evalVars>>

\* the annotator answers the prompt: input(...).lower().strip()
Respond ==
    /\ session.pc = "prompt"
    /\ \E line \in InputLines :
          /\ response' = Strip(Lower(line, UnicodeVersion(pythonMinor)))
          /\ session' = Answer(session, Strip(Lower(line, UnicodeVersion(pythonMinor))))
    /\ UNCHANGED <<retriever, searchLog, profiler, frames, clock, lastExit,
                   retrievalVars, mergeVars, labelVars, scorerVars, metricVars, evalVars>>

\* input() raises (EOFError at the end of the input, KeyboardInterrupt): the
\* exception leaves start_labeling_session, and the labels of the query in
\* progress are not saved
InputRaises ==
    /\ session.pc = "prompt"
    /\ session' = [session EXCEPT !.pc = "raised"]
    /\ UNCHANGED <<response, retriever, searchLog, profiler, frames, clock, lastExit,
                   retrievalVars, mergeVars, labelVars, scorerVars, metricVars, evalVars>>

NextLabeling == StartLabelingSession \/ Respond \/ InputRaises

SpecLabeling == InitLabeling /\ [][NextLabeling]_vars

\* C27: answering 'skip' at the prompt for a document moves the session on
\* (to the next document, the next query or the end) and records no label
\* for the skipped document.
C27_SkipMovesOn ==
    [][(session.pc = "prompt" /\ response' = <<"s", "k", "i", "p">>) =>
          /\ session'.labels = session.labels
          /\ <<session'.pc, session'.qi, session'.di>>
                 # <<session.pc, session.qi, session.di>>]_vars

(***************************************************************************)
(* QueryProfiler                                                           *)
(*   profiler: [current_query, timings]; timings maps a query to           *)
(*   [total_time_ms, stages, start_time, end_time], an absent end_time is  *)
(*   << >>; frames: the open with-blocks, outermost first, each            *)
(*   [kind, name, start, tracked]; clock: what the two clocks of the code  *)
(*   read, in seconds: perf_counter (time.perf_counter(), which never goes *)
(*   back) and time (time.time(), the wall clock, which has an origin of   *)
(*   its own and can be set forward or back); lastExit: how the last       *)
(*   with-block was left: "return", "raise" while the exception that left  *)
(*   it is travelling, "caught" once it has been caught.  Blocks are not   *)
(*   nested, except a stage inside a query.                                *)
(***************************************************************************)
MaxClock == 2

ProfiledQueries == {"q1", "q2"}
StageNames == {"retrieval"}

\* d[k] = v on a dict
Put(d, k, v) == [x \in (DOMAIN d) \cup {k} |-> IF x = k THEN v ELSE d[x]]

\* (time.perf_counter() - start) * 1000
ElapsedMs(start, now) == (now - start) * 1000

\* track_query up to its yield; time_now is what time.time() reads
track_query_enter(p, query, time_now) ==
    [current_query |-> query,
     timings |-> Put(p.timings, query,
                     [total_time_ms |-> 0, stages |-> << >>,
                      start_time |-> time_now, end_time |-> << >>])]

\* variant: the code after the yield runs only when the block did not raise
track_query_exit_unless_raised(p, query, start, perf_now, time_now, exc) ==
    IF exc THEN p
    ELSE [current_query |-> "None",
          timings |-> [p.timings EXCEPT ![query] =
                          [@ EXCEPT !.total_time_ms = ElapsedMs(start, perf_now),
                                    !.end_time = <<time_now>>]]]

\* the finally block of track_query: the elapsed time is taken from
\* time.perf_counter() (perf_now), end_time from time.time() (time_now)
track_query_exit(p, query, start, perf_now, time_now, exc) ==
    [current_query |-> "None",
     timings |-> [p.timings EXCEPT ![query] =
                     [@ EXCEPT !.total_time_ms = ElapsedMs(start, perf_now),
                               !.end_time = <<time_now>>]]]

\* track_stage up to its yield: whether the stage is tracked
track_stage_enter(p) == p.current_query # "None"

\* track_stage after its yield: nothing for an untracked stage, the finally
\* block for a tracked one, perf_now being what time.perf_counter() reads
track_stage_exit(p, stage_name, tracked, start, perf_now, exc) ==
    IF ~tracked THEN p
    ELSE [p EXCEPT !.timings[p.current_query].stages =
                       Put(@, stage_name, ElapsedMs(start, perf_now))]

\* leaving the with-block f when the clocks read now
ExitFrame(p, f, now, exc) ==
    IF f.kind = "query"
    THEN track_query_exit(p, f.name, f.start, now.perf_counter, now.time, exc)
    ELSE track_stage_exit(p, f.name, f.tracked, f.start, now.perf_counter, exc)

\* an exception has left a block and has not been caught yet
Travelling == lastExit = "raise"

InitProfiler ==
    /\ profiler = NoProfiler
    /\ frames = << >>
    /\ clock \in [perf_counter : {0}, time : 0..MaxClock]
    /\ lastExit = "none"
    /\ retriever = NoRetriever /\ searchLog = << >>
    /\ session = NoSession /\ response = "none"
    /\ IdleRetrieval /\ IdleMerge /\ IdleLabels /\ IdleLater

\* with profiler.track_query(query):
EnterQuery ==
    /\ ~Travelling
    /\ frames = << >>
    /\ \E query \in ProfiledQueries :
          /\ profiler' = track_query_enter(profiler, query, clock.time)
          /\ frames' = <<[kind |-> "query", name |-> query, start |-> clock.perf_counter,
                          tracked |-> TRUE]>>
    /\ UNCHANGED <<clock, lastExit, retriever, searchLog, session, response,
                   retrievalVars, mergeVars, labelVars, scorerVars, metricVars, evalVars>>

\* with profiler.track_stage(stage_name): outside a query or directly inside one
EnterStage ==
    /\ ~Travelling
    /\ \A i \in DOMAIN frames : frames[i].kind = "query"
    /\ \E stage_name \in StageNames :
          frames' = Append(frames, [kind |-> "stage", name |-> stage_name,
                                    start |-> clock.perf_counter,
                                    tracked |-> track_stage_enter(profiler)])
    /\ UNCHANGED <<profiler, clock, lastExit, retriever, searchLog, session, response,
                   retrievalVars, mergeVars, labelVars, scorerVars, metricVars, evalVars>>

\* the innermost block ends normally
ExitBlock ==
    /\ ~Travelling
    /\ frames # << >>
    /\ profiler' = ExitFrame(profiler, frames[Len(frames)], clock, FALSE)
    /\ frames' = SubSeq(frames, 1, Len(frames) - 1)
    /\ lastExit' = "return"
    /\ UNCHANGED <<clock, retriever, searchLog, session, response,
                   retrievalVars, mergeVars, labelVars, scorerVars, metricVars, evalVars>>

\* an exception leaves the innermost block: one raised by the code of the
\* block, or the one that left the block inside it and was not caught
RaiseInBlock ==
    /\ frames # << >>
    /\ profiler' = ExitFrame(profiler, frames[Len(frames)], clock, TRUE)
    /\ frames' = SubSeq(frames, 1, Len(frames) - 1)
    /\ lastExit' = "raise"
    /\ UNCHANGED <<clock, retriever, searchLog, session, response,
                   retrievalVars, mergeVars, labelVars, scorerVars, metricVars, evalVars>>

\* the travelling exception is caught by a try statement around the block it
\* left: in the enclosing block, which stays open, or in the caller
CatchException ==
    /\ Travelling
    /\ lastExit' = "caught"
    /\ UNCHANGED <<profiler, frames, clock, retriever, searchLog, session, response,
                   retrievalVars, mergeVars, labelVars, scorerVars, metricVars, evalVars>>

\* time passes, or the wall clock is set: perf_counter stays or moves on,
\* time reads anything
Tick ==
    /\ clock' \in [perf_counter : {clock.perf_counter, clock.perf_counter + 1} \cap 0..MaxClock,
                   time : 0..MaxClock]
    /\ clock' # clock
    /\ UNCHANGED <<profiler, frames, lastExit, retriever, searchLog, session, response,
                   retrievalVars, mergeVars, labelVars, scorerVars, metricVars, evalVars>>

NextProfiler ==
    \/ EnterQuery
    \/ EnterStage
    \/ ExitBlock
    \/ RaiseInBlock
    \/ CatchException
    \/ Tick

SpecProfiler == InitProfiler /\ [][NextProfiler]_vars

\* the step leaves the with-block at depth i
Leaves(i) == i \in DOMAIN frames /\ Len(frames') < i

\* C30: when a track_query block exits, normally or by an exception, the
\* query's total_time_ms (and end_time) is recorded and current_query is
\* None again; a track_stage entered while no query is active changes no
\* timing entry; a track_stage inside a query records its time under that
\* query and changes the entry of no other query.
C30_QueryContextConsistent ==
    [][/\ (Leaves(1) /\ frames[1].kind = "query") =>
             /\ profiler'.current_query = "None"
             /\ profiler'.timings[frames[1].name].total_time_ms
                    = ElapsedMs(frames[1].start, clock.perf_counter)
             /\ profiler'.timings[frames[1].name].end_time = <<clock.time>>
       /\ ((frames # << >> /\ frames[1].kind = "stage")
           \/ (frames' # << >> /\ frames'[1].kind = "stage")) =>
             profiler' = profiler
       /\ (Leaves(2) /\ frames[1].kind = "query") =>
             /\ frames[2].name \in DOMAIN profiler'.timings[frames[1].name].stages
             /\ profiler'.timings[frames[1].name].stages[frames[2].name]
                    = ElapsedMs(frames[2].start, clock.perf_counter)
             /\ \A q \in (DOMAIN profiler.timings) \ {frames[1].name} :
                    /\ q \in DOMAIN profiler'.timings
                    /\ profiler'.timings[q] = profiler.timings[q]]_vars

\* query q1, entered when the wall clock read 2, was left by an exception
\* two seconds later, when the wall clock, set back, read 0, after a stage of
\* no duration: the stage and the total are recorded under q1 only, and q2,
\* tracked before, is as it was; no query is current
C30_Witness ==
    /\ lastExit = "raise"
    /\ frames = << >>
    /\ profiler.current_query = "None"
    /\ DOMAIN profiler.timings = {"q1", "q2"}
    /\ profiler.timings["q1"].end_time = <<0>>
    /\ profiler.timings["q1"].start_time = 2
    /\ profiler.timings["q1"].total_time_ms = 2000
    /\ DOMAIN profiler.timings["q1"].stages = {"retrieval"}
    /\ profiler.timings["q1"].stages["retrieval"] = 0
    /\ DOMAIN profiler.timings["q2"].stages = {}
    /\ profiler.timings["q2"].end_time # << >>
    /\ profiler.timings["q2"].end_time = <<2>>

====
